---- MODULE Spec2Model ----
(***************************************************************************)
(* A model of the ESG-Search -> Globus-Search bridge (esg_fastapi.api):    *)
(*   - the query mapper GlobusSearchQuery.from_esg_search_query,           *)
(*   - the two-phase execution of search_globus through the caching        *)
(*     ThinSearchClient, with conditional-request validation.              *)
(*                                                                         *)
(* Python values are encoded as follows.                                   *)
(*   Optional[T]   : <<>> is None, <<v>> is the value v.                    *)
(*   str           : a sequence of tokens; the token "," is the comma.     *)
(*   list          : a sequence.                                           *)
(*   datetime      : seconds since the epoch (a datetime is always truthy).*)
(*   range bound   : <<"*">>, <<"int", n>> or <<"datetime", t>>.            *)
(***************************************************************************)
EXTENDS Integers, Sequences, FiniteSets, TLC

None == <<>>

Some(v) == <<v>>

IsNone(x) == x = None

Val(x) == x[1]

-----------------------------------------------------------------------------
(* utils.py *)

RECURSIVE split(_, _)
\* str.split(sep): the pieces of s between occurrences of sep; "".split(",") is [""].
split(s, sep) ==
    IF \A i \in 1..Len(s) : s[i] # sep
    THEN <<s>>
    ELSE LET i == CHOOSE k \in 1..Len(s) :
                      s[k] = sep /\ \A j \in 1..(k - 1) : s[j] # sep
         IN  <<SubSeq(s, 1, i - 1)>> \o split(SubSeq(s, i + 1, Len(s)), sep)

RECURSIVE strip(_)
\* str.strip(): drop leading and trailing blanks.
strip(s) ==
    IF s = <<>> THEN s
    ELSE IF s[1] = " " THEN strip(Tail(s))
    ELSE IF s[Len(s)] = " " THEN strip(SubSeq(s, 1, Len(s) - 1))
    ELSE s

\* ensure_list(value): a str is split on ",", a list is returned as is,
\* anything else is wrapped.  kind is the Python type of value.
ensure_list(kind, value) ==
    IF kind = "str" THEN split(value, ",")
    ELSE IF kind = "list" THEN value
    ELSE <<value>>

-----------------------------------------------------------------------------
(* models.py: the field model *)

\* ESGSearchQueryBase.model_fields: the meta fields.
BaseFields ==
    {"query", "format", "bbox", "offset", "limit", "replica", "distrib",
     "facets", "min_version", "max_version", "from_", "to"}

\* The modelled part of ESGSearchQuery's own field declarations, in
\* declaration order: a plain string field, the defaulted Literal field, a
\* MultiValued field and a bool field.
DeclaredFields == <<"id", "type", "activity_id", "latest">>

\* ESGSearchQuery.model_fields (inherited fields first).
ModelFields == BaseFields \cup {DeclaredFields[i] : i \in 1..Len(DeclaredFields)}

\* The queryable fields with the result type counted as a meta field.
_queriable_fields_type_is_meta == ModelFields \ (BaseFields \cup {"type"})

\* ESGSearchQuery._queriable_fields()
_queriable_fields == ModelFields \ BaseFields

\* The Python type of the validated value of a queryable field.
FieldKind(f) ==
    IF f = "activity_id" THEN "list" ELSE IF f = "latest" THEN "bool" ELSE "str"

\* Field defaults of ESGSearchQuery.
DefaultLimit == 10
DefaultOffset == 0
DefaultType == <<"Dataset">>

\* The route's query validated from the request's parameters alone, a
\* default counting as unset.
RouteDefaults_not_passed == {}

\* search_globus takes its query as `q: Annotated[ESGSearchQuery, Query()]`:
\* the framework validates the model from the parameters the request gives
\* and from the default of every field whose default is not None, so these
\* fields are in model_fields_set of every query the route receives.

RouteDefaults == {"format", "limit", "offset", "type"}

-----------------------------------------------------------------------------
(* models.py: GlobusSearchQuery.from_esg_search_query *)

Star == <<"*">>

\* GlobusRange(from_=..., to=...): PydanticUndefined (None here) takes the
\* field default "*".
GlobusRange(lo, hi) ==
    [from_ |-> IF IsNone(lo) THEN Star ELSE Val(lo),
     to    |-> IF IsNone(hi) THEN Star ELSE Val(hi)]

GlobusRangeFilter(field, range) ==
    [type |-> "range", field_name |-> field, values |-> <<range>>]

\* GlobusMatchFilter(field_name, values): values passes through ensure_list.
GlobusMatchFilter(field, kind, values) ==
    [type |-> "match_any", field_name |-> field, values |-> ensure_list(kind, values)]

\* GlobusFacet(name, field_name, type="terms")
FacetSize == 2000000000

GlobusFacet(name) ==
    [name |-> name, type |-> "terms", field_name |-> name, size |-> FacetSize]

\* GlobusSearchQuery.convert_esg_seach_facets_field on a str.
convert_esg_seach_facets_field(value) ==
    LET parts == split(value, ",")
    IN  [i \in 1..Len(parts) |-> GlobusFacet(strip(parts[i]))]

\* VersionFilters with the bounds tested for truthiness (`min_version or
\* PydanticUndefined`) instead of `is not None`: a bound of 0 reads as unset.
VersionFilters_truthy(query) ==
    IF {"min_version", "max_version"} \cap query.model_fields_set # {}
    THEN LET lower_bound == IF query.min_version # None /\ Val(query.min_version) # 0
                            THEN Some(<<"int", Val(query.min_version)>>) ELSE None
             upper_bound == IF query.max_version # None /\ Val(query.max_version) # 0
                            THEN Some(<<"int", Val(query.max_version)>>) ELSE None
         IN  <<GlobusRangeFilter("version", GlobusRange(lower_bound, upper_bound))>>
    ELSE <<>>

\* The version range filter (from_esg_search_query, first block).
VersionFilters(query) ==
    IF {"min_version", "max_version"} \cap query.model_fields_set # {}
    THEN LET lower_bound == IF query.min_version # None
                            THEN Some(<<"int", Val(query.min_version)>>) ELSE None
             upper_bound == IF query.max_version # None
                            THEN Some(<<"int", Val(query.max_version)>>) ELSE None
         IN  <<GlobusRangeFilter("version", GlobusRange(lower_bound, upper_bound))>>
    ELSE <<>>

\* The timestamp range filter (second block): `query.from_ or "*"`, where a
\* datetime is truthy whatever its value.
TimestampFilters(query) ==
    IF {"from_", "to"} \cap query.model_fields_set # {}
    THEN LET lower_bound == IF query.from_ # None
                            THEN Some(<<"datetime", Val(query.from_)>>) ELSE None
             upper_bound == IF query.to # None
                            THEN Some(<<"datetime", Val(query.to)>>) ELSE None
         IN  <<GlobusRangeFilter("_timestamp", GlobusRange(lower_bound, upper_bound))>>
    ELSE <<>>

\* query.model_dump(exclude_unset=True, include=query._queriable_fields()):
\* the names of the dumped fields, in declaration order.
RECURSIVE DumpSetQueriable(_, _)
DumpSetQueriable(query, i) ==
    IF i > Len(DeclaredFields) THEN <<>>
    ELSE LET f == DeclaredFields[i]
         IN  (IF f \in _queriable_fields /\ f \in query.model_fields_set
              THEN <<f>> ELSE <<>>) \o DumpSetQueriable(query, i + 1)

\* One match filter for a dumped field: a str value is split on ",", a list
\* is passed as it is.
MatchFilterOf(query, f) ==
    LET field_value == Val(query[f])
    IN  IF FieldKind(f) = "str"
        THEN GlobusMatchFilter(f, "list", split(field_value, ","))
        ELSE GlobusMatchFilter(f, FieldKind(f), field_value)

MatchFilters(query) ==
    LET names == DumpSetQueriable(query, 1)
    IN  [i \in 1..Len(names) |-> MatchFilterOf(query, names[i])]

\* MappedQ dropping both wildcard spellings, "*" and "*:*".
MappedQ_both_wildcards(query) ==
    IF query.query # None /\ Val(query.query) \notin {"", "*", "*:*"}
    THEN query.query
    ELSE None

\* The free-text query: set only when it is truthy and not "*".
MappedQ(query) ==
    IF query.query # None /\ Val(query.query) # "" /\ Val(query.query) # "*"
    THEN query.query
    ELSE None

from_esg_search_query(query) ==
    LET built_filters ==
            VersionFilters(query) \o TimestampFilters(query) \o MatchFilters(query)
    IN  [version_ |-> "query#1.0.0",
         q        |-> MappedQ(query),
         advanced |-> TRUE,
         limit    |-> IF query.limit # None THEN Val(query.limit) ELSE DefaultLimit,
         offset   |-> IF query.offset # None THEN Val(query.offset) ELSE DefaultOffset,
         filters  |-> IF built_filters # <<>> THEN Some(built_filters) ELSE None,
         facets   |-> IF query.facets # None
                      THEN Some(convert_esg_seach_facets_field(Val(query.facets)))
                      ELSE None]

-----------------------------------------------------------------------------
(* The mapper applied to bounded queries *)

\* mq, mg: the query handed to the mapper and the mapped query.
\* handler: the request handlers; cache: the client's response cache;
\* stored_at: when the backend last answered each key with a 200;
\* now: the clock; nreq, backend_calls: requests received, backend invocations.
\* aq, arows, afacets, alegacy: a query, its rows response, its facets
\* response and the legacy response assembled from them.
\* rreq, rresp: a request to the /search alias and the response to it.
\* app, settings, renewer, access_token: the application's lifespan phase,
\* its Globus settings, the token renewal task and the client's bearer token;
\* token_requests, search_auth: the token requests issued so far and the
\* Authorization header of the latest search call; token_cache: what the
\* client's cache holds under the key of the token request.
VARIABLES mq, mg, handler, cache, stored_at, now, nreq, backend_calls,
          aq, arows, afacets, alegacy, rreq, rresp,
          app, settings, renewer, access_token, token_requests, search_auth,
          token_cache

mvars == <<mq, mg>>

xvars == <<handler, cache, stored_at, now, nreq, backend_calls>>

avars == <<aq, arows, afacets, alegacy>>

rvars == <<rreq, rresp>>

wvars == <<app, settings, renewer, access_token, token_requests, search_auth,
           token_cache>>

vars == <<mq, mg, handler, cache, stored_at, now, nreq, backend_calls,
          aq, arows, afacets, alegacy, rreq, rresp,
          app, settings, renewer, access_token, token_requests, search_auth,
          token_cache>>

\* Bounds of the mapper's inputs.
MaxVersion == 1
MaxEpoch == 1

QueryTexts == {"", "*", "*:*", "tas"}
StrValues == {<<>>, <<"a">>, <<"a", ",", "b">>}
ListValues == {<<<<>>>>, <<<<"a">>>>, <<<<"a">>, <<"b">>>>, <<<<"a", ",", "b">>>>}
FacetStrings == {<<"a">>, <<"a", ",", " ", "b">>}

\* An ESGSearchQuery: the validated field values and model_fields_set.  A
\* field outside model_fields_set holds its default.
ESGSearchQuery(fs, query, facets, lo, hi, from_, to, id, type, activity_id, latest) ==
    [model_fields_set |-> fs,
     query       |-> IF "query" \in fs THEN Some(query) ELSE None,
     limit       |-> Some(DefaultLimit),
     offset      |-> Some(DefaultOffset),
     facets      |-> IF "facets" \in fs THEN Some(facets) ELSE None,
     min_version |-> IF "min_version" \in fs THEN Some(lo) ELSE None,
     max_version |-> IF "max_version" \in fs THEN Some(hi) ELSE None,
     from_       |-> IF "from_" \in fs THEN Some(from_) ELSE None,
     to          |-> IF "to" \in fs THEN Some(to) ELSE None,
     id          |-> IF "id" \in fs THEN Some(id) ELSE None,
     type        |-> IF "type" \in fs THEN Some(type) ELSE Some(DefaultType),
     activity_id |-> IF "activity_id" \in fs THEN Some(activity_id) ELSE None,
     latest      |-> IF "latest" \in fs THEN Some(latest) ELSE None]

MInit ==
    /\ mq = None
    /\ mg = None

\* A caller builds a query.
Build ==
    /\ mq = None
    /\ mg = None
    /\ \E fs \in SUBSET {"query", "facets", "min_version", "max_version",
                         "from_", "to", "id", "type", "activity_id", "latest"} :
       \E query \in IF "query" \in fs THEN QueryTexts ELSE {""} :
       \E facets \in IF "facets" \in fs THEN FacetStrings ELSE {<<>>} :
       \E lo \in IF "min_version" \in fs THEN 0..MaxVersion ELSE {0} :
       \E hi \in IF "max_version" \in fs THEN 0..MaxVersion ELSE {0} :
       \E from_ \in IF "from_" \in fs THEN 0..MaxEpoch ELSE {0} :
       \E to \in IF "to" \in fs THEN 0..MaxEpoch ELSE {0} :
       \E id \in IF "id" \in fs THEN StrValues ELSE {<<>>} :
       \E type \in IF "type" \in fs THEN {<<"Dataset">>, <<"File">>} ELSE {<<>>} :
       \E activity_id \in IF "activity_id" \in fs THEN ListValues ELSE {<<>>} :
       \E latest \in IF "latest" \in fs THEN BOOLEAN ELSE {FALSE} :
          mq' = Some(ESGSearchQuery(fs, query, facets, lo, hi, from_, to,
                                    id, type, activity_id, latest))
    /\ UNCHANGED <<mg, handler, cache, stored_at, now, nreq, backend_calls>>
    /\ UNCHANGED <<avars, rvars, wvars>>

\* The mapper runs on the query.
Map ==
    /\ mq # None
    /\ mg = None
    /\ mg' = Some(from_esg_search_query(Val(mq)))
    /\ UNCHANGED <<mq, handler, cache, stored_at, now, nreq, backend_calls>>
    /\ UNCHANGED <<avars, rvars, wvars>>

\* The caller drops the query and its result.
Drop ==
    /\ mg # None
    /\ mq' = None
    /\ mg' = None
    /\ UNCHANGED xvars
    /\ UNCHANGED <<avars, rvars, wvars>>

MNext == Build \/ Map \/ Drop



-----------------------------------------------------------------------------
(* globus.py: ThinSearchClient and its forced, time-boxed response cache *)

\* AsyncInMemoryStorage(ttl=300)
TTL == 300

\* The fields of GlobusSearchQuery that may be None.
OptionalQueryFields == {"q", "filters", "facets"}

\* query.model_dump_json(exclude_none=True): the request body.
model_dump_json(query) ==
    LET names == {n \in DOMAIN query :
                    n \notin OptionalQueryFields \/ query[n] # None}
    IN  [n \in names |->
            IF n \in OptionalQueryFields THEN Val(query[n]) ELSE query[n]]

\* The key under which the cache files a search request: a digest of the
\* method and the body (the URL is fixed).  A str of two tokens.
cache_key(query) == <<"POST", model_dump_json(query)>>

\* is_cachable with Controller(cacheable_methods=["POST"]) and
\* extensions={"force_cache": True} but honouring the backend's
\* Cache-Control: a no-store response is not stored.
is_cachable_negotiated(status, cache_control) ==
    status = 200 /\ cache_control # "no-store"

\* Whether a backend response is stored: a POST is cacheable and the request
\* forces caching, so the backend's Cache-Control is not consulted.
is_cachable(status, cache_control) == status = 200

\* An entry is expired once it is older than the TTL.
IsExpired(entry, t) == t - entry.created > TTL

\* The storage drops expired entries before a retrieve and after a store.
remove_expired_caches(c, t) ==
    [k \in DOMAIN c |->
        IF c[k] # None /\ IsExpired(Val(c[k]), t) THEN None ELSE c[k]]

\* A store that keeps the entry a key already has.
store_first_write_wins(c, key, t) ==
    remove_expired_caches(
        [c EXCEPT ![key] = IF @ = None THEN Some([created |-> t]) ELSE @], t)

\* The storage files a response under its key at time t, replacing the entry
\* the key had, and drops the expired entries.
store(c, key, t) ==
    remove_expired_caches([c EXCEPT ![key] = Some([created |-> t])], t)

-----------------------------------------------------------------------------
(* routes.py *)

CacheControlPolicy == "public max-age=300 stale-while-revalidate=300 stale-if-error=300"

\* set_cache_control_headers(response)
set_cache_control_headers(headers) ==
    [headers EXCEPT !.cache_control = Some(CacheControlPolicy)]

\* Python truthiness of an optional str or list.
Truthy(x) == x # None /\ Val(x) # <<>>

\* The validation without the from_cache guard.
validate_cache_request_directives_unguarded(response, headers) ==
    LET key == IF response.cache_key = None THEN <<"POST">> ELSE Val(response.cache_key)
    IN  IF Truthy(headers.if_none_match)
        THEN IF key = Val(headers.if_none_match) THEN 304 ELSE 0
        ELSE IF Truthy(headers.if_match)
             THEN IF key # Val(headers.if_match) THEN 412 ELSE 0
             ELSE 0

\* The validation with the if-none-match comparison inverted.
validate_cache_request_directives_inverted(response, headers) ==
    IF ~response.from_cache THEN 0
    ELSE LET key == Val(response.cache_key)
         IN  IF Truthy(headers.if_none_match)
             THEN IF key # Val(headers.if_none_match) THEN 304 ELSE 0
             ELSE IF Truthy(headers.if_match)
                  THEN IF key # Val(headers.if_match) THEN 412 ELSE 0
                  ELSE 0

\* validate_cache_request_directives(response, headers): the status of the
\* HTTPException it raises, 0 when it returns.
validate_cache_request_directives(response, headers) ==
    IF ~response.from_cache THEN 0
    ELSE LET key == Val(response.cache_key)
         IN  IF Truthy(headers.if_none_match)
             THEN IF key = Val(headers.if_none_match) THEN 304 ELSE 0
             ELSE IF Truthy(headers.if_match)
                  THEN IF key # Val(headers.if_match) THEN 412 ELSE 0
                  ELSE 0

\* WITHOUT_ROWS with a limit of 1.
WITHOUT_ROWS_one(query) == [query EXCEPT !.limit = 1]

\* globus_query.model_copy(update=WITHOUT_ROWS)
WITHOUT_ROWS(query) == [query EXCEPT !.limit = 0]

\* globus_query.model_copy(update=WITHOUT_FACETS)
WITHOUT_FACETS(query) == [query EXCEPT !.facets = Some(<<>>)]

\* The steps after the rows response with the facets query fired before the
\* validation.
after_rows_response_eager(globus_query, rows_response, headers) ==
    LET raised == validate_cache_request_directives(rows_response, headers)
    IN  [raised |-> raised,
         facets |-> Truthy(globus_query.facets),
         events |-> (IF Truthy(globus_query.facets) THEN <<"facets_call">> ELSE <<>>)
                    \o <<"validate">>]

\* search_globus after the rows response: validate the conditional headers,
\* and only when that returns, fire the facets query if facets were asked.
after_rows_response(globus_query, rows_response, headers) ==
    LET raised == validate_cache_request_directives(rows_response, headers)
    IN  IF raised # 0
        THEN [raised |-> raised, facets |-> FALSE, events |-> <<"validate">>]
        ELSE [raised |-> 0,
              facets |-> Truthy(globus_query.facets),
              events |-> <<"validate">> \o
                         (IF Truthy(globus_query.facets) THEN <<"facets_call">> ELSE <<>>)]

\* A merge that takes the whole facets response when facets were asked.
merge_responses_facets_wins(globus_query, rows_json, facets_json) ==
    IF Truthy(globus_query.facets) THEN Val(facets_json) ELSE rows_json

\* search_globus, the merge: response_json is the body of the rows response,
\* and when facets were asked its facet_results entry is set to that of the
\* facets response's body.
merge_responses(globus_query, rows_json, facets_json) ==
    IF Truthy(globus_query.facets)
    THEN [rows_json EXCEPT !.facet_results = Val(facets_json).facet_results]
    ELSE rows_json

\* main.py: the exception classes app_factory registers handlers for.
HandledExceptions == {"TimeoutError", "HTTPStatusError"}

\* type(exc).__mro__ of the exceptions a search call raises: those of the
\* HTTP client derive from its HTTPError, not from the builtin TimeoutError.
ExceptionMRO(exc) ==
    CASE exc = "ReadTimeout" ->
            <<"ReadTimeout", "TimeoutException", "TransportError", "RequestError",
              "HTTPError", "Exception">>
      [] exc = "HTTPStatusError" -> <<"HTTPStatusError", "HTTPError", "Exception">>
      [] exc = "TimeoutError" -> <<"TimeoutError", "OSError", "Exception">>
      [] OTHER -> <<exc, "Exception">>

\* The registered class whose handler answers for exc: the first class of
\* the exception's MRO that has one, "" when none has.
lookup_handler(exc) ==
    LET mro == ExceptionMRO(exc)
        hits == {i \in 1..Len(mro) : mro[i] \in HandledExceptions}
    IN  IF hits = {} THEN ""
        ELSE mro[CHOOSE i \in hits : \A j \in hits : i <= j]

\* handle_upstream_timeout(_, exc): the JSON response and the log level.
handle_upstream_timeout(exc) ==
    [status_code |-> 504,
     content |-> Some([type |-> exc,
                       title |-> "Timeout While Connecting to Globus Search",
                       status |-> 504,
                       detail |-> "str(exc)",
                       trace_id |-> "trace_id"]),
     logged |-> "error"]

\* handle_upstream_http_status_error(_, exc)
handle_upstream_http_status_error(exc, status) ==
    [status_code |-> status,
     content |-> Some([type |-> exc,
                       title |-> "HTTP Status Error While Connecting to Globus Search",
                       status |-> status,
                       detail |-> "str(exc)",
                       trace_id |-> "trace_id"]),
     logged |-> "error"]

\* The response for an exception leaving search_globus: an HTTPException
\* becomes a response of its status (with no body for 304), a class with a
\* registered handler goes to that handler, any other ends in the server's
\* plain 500, logged by the server.
exception_response(exc, status) ==
    IF exc = "HTTPException"
    THEN [status_code |-> status,
          content |-> IF status = 304 THEN None
                      ELSE Some([detail |-> "Precondition Failed"]),
          logged |-> ""]
    ELSE IF lookup_handler(exc) = "HTTPStatusError"
    THEN handle_upstream_http_status_error(exc, status)
    ELSE IF lookup_handler(exc) = "TimeoutError"
    THEN handle_upstream_timeout(exc)
    ELSE [status_code |-> 500,
          content |-> Some([text |-> "Internal Server Error"]),
          logged |-> "error"]

\* The status of that response.
exception_status(exc, status) == exception_response(exc, status).status_code

-----------------------------------------------------------------------------
(* The search operation: request handlers over one shared client *)

\* Bounds.
MaxRequests == 2
MaxTime == 400
TimeStep == 200

\* The requests of the runs in which handlers race for one key.
MaxRaceRequests == 3

\* Two handlers, enough for two requests to be in flight at once.
Handlers == {"h1", "h2"}

\* The queries the handlers receive: one with and one without facets, the
\* result type at its default.
ExecQueries ==
    {ESGSearchQuery(RouteDefaults \cup fs, "tas", <<"a">>, 0, 0, 0, 0,
                    <<>>, DefaultType, <<>>, FALSE) :
        fs \in SUBSET {"facets"}}

\* The queries of the racing requests: the one without facets.
RaceQueries == {q \in ExecQueries : q.facets = None}

\* Every key a search call of these queries can be filed under.
AllKeys ==
    {cache_key(WITHOUT_FACETS(from_esg_search_query(q))) : q \in ExecQueries}
    \cup {cache_key(WITHOUT_ROWS(from_esg_search_query(q))) :
             q \in {e \in ExecQueries : e.facets # None}}

\* The values of a conditional header: absent, an unrelated tag, or the key
\* of the request's rows query.
EtagsFor(q) ==
    {None, Some(<<"some_other_cache_key">>),
     Some(cache_key(WITHOUT_FACETS(from_esg_search_query(q))))}

\* What the backend answers: a status and a Cache-Control header.
BackendStatuses == {200, 500}
BackendCacheControls == {"", "no-store"}

IdleHandler ==
    [pc |-> "idle", q |-> None,
     headers |-> [if_none_match |-> None, if_match |-> None],
     response_headers |-> [cache_control |-> None],
     calls |-> <<>>, events |-> <<>>,
     rows_response |-> None, facets_response |-> None,
     exc |-> "", status |-> 0, cache_control |-> None,
     content |-> None, logged |-> ""]

XInit ==
    /\ handler = [h \in Handlers |-> IdleHandler]
    /\ cache = [k \in AllKeys |-> None]
    /\ stored_at = [k \in AllKeys |-> None]
    /\ now = 0
    /\ nreq = 0
    /\ backend_calls = 0

\* The cached response for key at time t, None on a miss.
Retrieve(c, key, t) == remove_expired_caches(c, t)[key]

\* The response served from the cache.
CachedResponse(key) ==
    [from_cache |-> TRUE, cache_key |-> Some(key), status |-> 200]

\* The handler h, having sent `query` through client.search: on a hit the
\* response is at hand, on a miss the backend is invoked and h waits.
SendSearch(h, hr, query, stage) ==
    LET key == cache_key(query)
        sent == [hr EXCEPT !.calls = Append(@, query)]
    IN  /\ cache' = remove_expired_caches(cache, now)
        /\ IF Retrieve(cache, key, now) # None
           THEN /\ handler' = [handler EXCEPT ![h] =
                     IF stage = "rows"
                     THEN [sent EXCEPT !.pc = "rows_resp",
                                       !.rows_response = Some(CachedResponse(key))]
                     ELSE [sent EXCEPT !.pc = "facets_resp",
                                       !.facets_response = Some(CachedResponse(key))]]
                /\ UNCHANGED backend_calls
           ELSE /\ handler' = [handler EXCEPT ![h] =
                     [sent EXCEPT !.pc = IF stage = "rows" THEN "rows_wait"
                                         ELSE "facets_wait"]]
                /\ backend_calls' = backend_calls + 1

\* The handler ends with an exception.
Raise(hr, exc, status) ==
    [hr EXCEPT !.pc = "done", !.exc = exc,
               !.status = exception_status(exc, status),
               !.cache_control = None,
               !.content = exception_response(exc, status).content,
               !.logged = exception_response(exc, status).logged]

\* The handler returns the legacy response: the headers the dependency set
\* on the injected response go out with it.
Return(hr) ==
    [hr EXCEPT !.pc = "done", !.status = 200,
               !.cache_control = hr.response_headers.cache_control]

\* GET / arrives and its dependency, a plain function the framework runs in
\* a worker thread, sets the cache-control policy on the injected response.
\* The body of search_globus has not started: other handlers run meanwhile.
Request(h) ==
    /\ handler[h].pc \in {"idle", "done"}
    /\ nreq < MaxRequests
    /\ nreq' = nreq + 1
    /\ \E q \in ExecQueries :
       \E inm \in EtagsFor(q) :
       \E im \in EtagsFor(q) :
          handler' = [handler EXCEPT ![h] =
              [IdleHandler EXCEPT
                  !.pc = "ready",
                  !.q = Some(q),
                  !.headers = [if_none_match |-> inm, if_match |-> im],
                  !.response_headers = set_cache_control_headers(@)]]
    /\ UNCHANGED <<cache, stored_at, now, backend_calls, mq, mg>>
    /\ UNCHANGED <<avars, rvars, wvars>>

\* The body of search_globus starts: the query is mapped and the rows query
\* is sent.
RowsCall(h) ==
    /\ handler[h].pc = "ready"
    /\ LET hr == [handler[h] EXCEPT !.events = <<"rows_call">>]
           rows_query == WITHOUT_FACETS(from_esg_search_query(Val(hr.q)))
       IN  SendSearch(h, hr, rows_query, "rows")
    /\ UNCHANGED <<stored_at, now, nreq, mq, mg>>
    /\ UNCHANGED <<avars, rvars, wvars>>

\* The backend answers the pending call of h; a 200 is stored by the cache.
BackendReply(h) ==
    /\ handler[h].pc \in {"rows_wait", "facets_wait"}
    /\ \E status \in BackendStatuses :
       \E cc \in BackendCacheControls :
          LET hr == handler[h]
              query == hr.calls[Len(hr.calls)]
              key == cache_key(query)
              response == [from_cache |-> FALSE, cache_key |-> None,
                           status |-> status]
          IN  /\ cache' = IF is_cachable(status, cc)
                          THEN store(cache, key, now)
                          ELSE cache
              /\ stored_at' = IF status = 200
                              THEN [stored_at EXCEPT ![key] = Some(now)]
                              ELSE stored_at
              /\ handler' = [handler EXCEPT ![h] =
                    IF status # 200
                    THEN Raise(hr, "HTTPStatusError", status)
                    ELSE IF hr.pc = "rows_wait"
                    THEN [hr EXCEPT !.pc = "rows_resp", !.rows_response = Some(response)]
                    ELSE [hr EXCEPT !.pc = "facets_resp", !.facets_response = Some(response)]]
    /\ UNCHANGED <<now, nreq, backend_calls, mq, mg>>
    /\ UNCHANGED <<avars, rvars, wvars>>

\* The pending call of h runs into the client's timeout: the backend has not
\* answered within it and the client raises its ReadTimeout.
BackendTimeout(h) ==
    /\ handler[h].pc \in {"rows_wait", "facets_wait"}
    /\ handler' = [handler EXCEPT ![h] = Raise(@, "ReadTimeout", 0)]
    /\ UNCHANGED <<cache, stored_at, now, nreq, backend_calls, mq, mg>>
    /\ UNCHANGED <<avars, rvars, wvars>>

\* search_globus resumes with the rows response.
AfterRows(h) ==
    /\ handler[h].pc = "rows_resp"
    /\ LET hr == handler[h]
           globus_query == from_esg_search_query(Val(hr.q))
           plan == after_rows_response(globus_query, Val(hr.rows_response), hr.headers)
           seen == [hr EXCEPT !.events = @ \o plan.events]
       IN  IF plan.facets
           THEN SendSearch(h, seen, WITHOUT_ROWS(globus_query), "facets")
           ELSE /\ handler' = [handler EXCEPT ![h] =
                     IF plan.raised # 0
                     THEN Raise(seen, "HTTPException", plan.raised)
                     ELSE Return(seen)]
                /\ UNCHANGED <<cache, backend_calls>>
    /\ UNCHANGED <<stored_at, now, nreq, mq, mg>>
    /\ UNCHANGED <<avars, rvars, wvars>>

\* search_globus resumes with the facets response and returns.
AfterFacets(h) ==
    /\ handler[h].pc = "facets_resp"
    /\ handler' = [handler EXCEPT ![h] = Return(@)]
    /\ UNCHANGED <<cache, stored_at, now, nreq, backend_calls, mq, mg>>
    /\ UNCHANGED <<avars, rvars, wvars>>

\* GET / arrives with a query without facets and no conditional headers,
\* and its dependency sets the cache-control policy: every such request will
\* send the same rows query.
RaceRequest(h) ==
    /\ handler[h].pc \in {"idle", "done"}
    /\ nreq < MaxRaceRequests
    /\ nreq' = nreq + 1
    /\ \E q \in RaceQueries :
          handler' = [handler EXCEPT ![h] =
              [IdleHandler EXCEPT
                  !.pc = "ready",
                  !.q = Some(q),
                  !.response_headers = set_cache_control_headers(@)]]
    /\ UNCHANGED <<cache, stored_at, now, backend_calls, mq, mg>>
    /\ UNCHANGED <<avars, rvars, wvars>>

\* Time passes.
Tick ==
    /\ now + TimeStep <= MaxTime
    /\ now' = now + TimeStep
    /\ UNCHANGED <<handler, cache, stored_at, nreq, backend_calls, mq, mg>>
    /\ UNCHANGED <<avars, rvars, wvars>>

-----------------------------------------------------------------------------
(* utils.py and models.py: the legacy response *)

QUOTE == "\""

\* The type of the terms ensure_list yields for a field value of this type.
TermKind(kind) == IF kind = "bool" THEN "bool" ELSE "str"

\* str(value) as an f-string renders it.
str(kind, value) ==
    IF kind = "bool" THEN <<IF value THEN "True" ELSE "False">> ELSE value

\* quote_str(value): a str that neither starts nor ends with a double quote
\* is wrapped in double quotes; anything else is returned as it is.
quote_str(kind, value) ==
    IF /\ kind = "str"
       /\ ~(value # <<>> /\ value[1] = QUOTE)
       /\ ~(value # <<>> /\ value[Len(value)] = QUOTE)
    THEN <<QUOTE>> \o value \o <<QUOTE>>
    ELSE value

RECURSIVE join(_, _)
\* sep.join(parts)
join(sep, parts) ==
    IF parts = <<>> THEN <<>>
    ELSE IF Len(parts) = 1 THEN parts[1]
    ELSE parts[1] \o sep \o join(sep, Tail(parts))

\* format_fq_field with no field exempt from quoting.
format_fq_field_all_quoted(key, kind, value) ==
    LET terms == ensure_list(kind, value)
    IN  join(<<" || ">>,
             [i \in 1..Len(terms) |->
                 <<key, ":">> \o str(TermKind(kind), quote_str(TermKind(kind), terms[i]))])

\* format_fq_field((key, value)): every term of the value as key:term, the
\* term passed through quote_str unless the key is "type", joined by " || ".
format_fq_field(key, kind, value) ==
    LET non_quoted_fields == {"type"}
        terms == ensure_list(kind, value)
    IN  join(<<" || ">>,
             [i \in 1..Len(terms) |->
                 <<key, ":">> \o
                 str(TermKind(kind),
                     IF key \notin non_quoted_fields
                     THEN quote_str(TermKind(kind), terms[i])
                     ELSE terms[i])])

\* one_or_list that never unwraps.
one_or_list_never(kind, value) == [kind |-> kind, value |-> value]

\* one_or_list(value): a list of length 1 is replaced by its only item,
\* anything else is returned as it is.  The result carries its Python type.
one_or_list(kind, value) ==
    IF kind = "list" /\ Len(value) = 1
    THEN [kind |-> "str", value |-> value[1]]
    ELSE [kind |-> kind, value |-> value]

\* query.model_dump(exclude_none=True, include=query._queriable_fields()):
\* the names of the dumped fields, in declaration order.
RECURSIVE DumpNotNoneQueriable(_, _)
DumpNotNoneQueriable(query, i) ==
    IF i > Len(DeclaredFields) THEN <<>>
    ELSE LET f == DeclaredFields[i]
         IN  (IF f \in _queriable_fields /\ query[f] # None
              THEN <<f>> ELSE <<>>) \o DumpNotNoneQueriable(query, i + 1)

\* fq_field_from_esg_search_query(query)
fq_field_from_esg_search_query(query) ==
    LET names == DumpNotNoneQueriable(query, 1)
    IN  one_or_list("list",
            [i \in 1..Len(names) |->
                format_fq_field(names[i], FieldKind(names[i]), Val(query[names[i]]))])

\* The score every doc is given, in tenths: 0.5.
SyntheticScore == 5

\* A dict merge that lets the record's own content win over the id and the
\* synthesized score.
merge_content_last(record) ==
    LET content == record.entries[1].content
    IN  [k \in DOMAIN content \cup {"id", "score"} |->
            IF k \in DOMAIN content THEN content[k]
            ELSE IF k = "id" THEN record.subject
            ELSE SyntheticScore]

\* record.entries[0].content | {"id": record.subject, "score": 0.5}
merge_content(record) ==
    LET content == record.entries[1].content
    IN  [k \in DOMAIN content \cup {"id", "score"} |->
            IF k = "id" THEN record.subject
            ELSE IF k = "score" THEN SyntheticScore
            ELSE content[k]]

\* solr_docs_from_globus_meta_results(results)
solr_docs_from_globus_meta_results(results) ==
    [i \in 1..Len(results) |-> merge_content(results[i])]

\* The largest member of a non-empty set of integers.
max(S) == CHOOSE m \in S : \A n \in S : n <= m

\* ESGSearchResult.maxScore: the largest score of the docs, a doc without a
\* score counting as 0; None when there are no docs.
maxScore(docs) ==
    IF docs = <<>> THEN None
    ELSE Some(max({IF "score" \in DOMAIN docs[i] THEN docs[i].score ELSE 0 :
                      i \in 1..Len(docs)}))

\* One facet's buckets flattened: value, count, value, count, ...
RECURSIVE flatten_buckets(_)
flatten_buckets(buckets) ==
    IF buckets = <<>> THEN <<>>
    ELSE <<buckets[1].value, buckets[1].count>> \o flatten_buckets(Tail(buckets))

\* ESGFSearchFacetResult.from_globus_facet_result(globus_facets): a missing
\* list reads as an empty one; a name given twice keeps its last buckets.
from_globus_facet_result(globus_facets) ==
    LET facets == IF globus_facets = None THEN <<>> ELSE Val(globus_facets)
        last(name) == CHOOSE i \in 1..Len(facets) :
                          /\ facets[i].name = name
                          /\ \A j \in (i + 1)..Len(facets) : facets[j].name # name
    IN  [facet_fields |->
            [name \in {facets[i].name : i \in 1..Len(facets)} |->
                flatten_buckets(facets[last(name)].buckets)]]

\* ESGSearchResponse.from_results(q, q_time, result): the response header's
\* QTime and echoed paging and fq parameters, the documents and the facet
\* counts.
from_results(q, q_time, result) ==
    LET docs == solr_docs_from_globus_meta_results(result.gmeta)
    IN  [facet_counts |-> from_globus_facet_result(result.facet_results),
         responseHeader |->
            [status |-> 0,
             QTime  |-> q_time,
             params |-> [start |-> Val(q.offset),
                         rows  |-> Val(q.limit),
                         fq    |-> fq_field_from_esg_search_query(q)]],
         response |->
            [numFound |-> result.total,
             start    |-> result.offset,
             docs     |-> docs,
             maxScore |-> maxScore(docs)]]

-----------------------------------------------------------------------------
(* globus.py: the server-timing response hook *)

DecimalDigits == <<"0", "1", "2", "3", "4", "5", "6", "7", "8", "9">>

Digit(c) == (CHOOSE n \in 1..10 : DecimalDigits[n] = c) - 1

RECURSIVE int_of_digits(_)
\* The number a string of decimal digits denotes.
int_of_digits(ds) ==
    IF ds = <<>> THEN 0
    ELSE 10 * int_of_digits(SubSeq(ds, 1, Len(ds) - 1)) + Digit(ds[Len(ds)])

\* The decimal numeral `value`: its whole part, its first three fraction
\* digits as a number of thousandths, and whether any later digit is not 0.
Decimal(value) ==
    LET parts == split(value, ".")
        frac == IF Len(parts) > 1 THEN parts[2] ELSE <<>>
        padded == frac \o <<"0", "0", "0">>
    IN  [whole       |-> int_of_digits(parts[1]),
         thousandths |-> int_of_digits(SubSeq(padded, 1, 3)),
         remainder   |-> \E i \in 4..Len(frac) : frac[i] # "0"]

\* The numerals <<whole, thousandths>> (up to 5.012) for which the binary
\* double nearest to the numeral, multiplied by 1000, is a double just below
\* the whole number of milliseconds: 1.001 * 1000 is 1000.9999999999999.
BinaryShortfall ==
    {<<1, 1>>, <<1, 3>>, <<1, 5>>, <<1, 7>>, <<1, 9>>, <<1, 11>>,
     <<2, 2>>, <<2, 6>>, <<2, 10>>, <<4, 4>>, <<4, 7>>, <<4, 12>>}

\* int(float(value) * 1000): the product is taken in binary floating point
\* and truncated.
int_float_times_1000(value) ==
    LET d == Decimal(value)
    IN  d.whole * 1000 + d.thousandths
        - (IF ~d.remainder /\ <<d.whole, d.thousandths>> \in BinaryShortfall
           THEN 1 ELSE 0)

\* The <<metric, value>> pairs of a server-timing header: the header is
\* split on ",", each piece on ";" and its first part on "=".
TimingPairs(server_sent_timings) ==
    LET pairs == split(server_sent_timings, ",")
    IN  [i \in 1..Len(pairs) |->
            LET measurement == split(pairs[i], ";")[1]
            IN  <<split(measurement, "=")[1], split(measurement, "=")[2]>>]

\* globus_timings(response): the globus_timings extension, None when the
\* response has no (or an empty) server-timing header.  A metric named twice
\* keeps its last value.
globus_timings(server_timing) ==
    IF server_timing = None \/ Val(server_timing) = <<>> THEN None
    ELSE LET pairs == TimingPairs(Val(server_timing))
             last(metric) == CHOOSE i \in 1..Len(pairs) :
                                 /\ pairs[i][1] = metric
                                 /\ \A j \in (i + 1)..Len(pairs) : pairs[j][1] # metric
         IN  Some([metric \in {pairs[i][1] : i \in 1..Len(pairs)} |->
                      int_float_times_1000(pairs[last(metric)][2])])

-----------------------------------------------------------------------------
(* The legacy response assembled for bounded queries and rows responses *)

\* Bounds of the rows and facets responses.
MaxSeconds == 1
MaxMillis == 3
MaxDocs == 2
MaxBuckets == 2

EchoStrValues ==
    {<<>>, <<"a">>, <<"a", ",", "b">>, <<QUOTE, "a", QUOTE>>, <<QUOTE, "a">>}

EchoListValues == {<<<<"a">>>>, <<<<"a">>, <<"b">>>>}

\* The queries whose response is assembled: those the route receives for
\* the parameters of a request, the result type at its default when the
\* request names none.
EchoQueries ==
    UNION {
      {ESGSearchQuery(RouteDefaults \cup fs, "", <<>>, 0, 0, 0, 0,
                      id, type, activity_id, latest) :
          id \in IF "id" \in fs THEN EchoStrValues ELSE {<<>>},
          type \in IF "type" \in fs THEN {<<"Dataset">>, <<"File">>}
                                    ELSE {DefaultType},
          activity_id \in IF "activity_id" \in fs THEN EchoListValues ELSE {<<>>},
          latest \in IF "latest" \in fs THEN BOOLEAN ELSE {FALSE}} :
      fs \in SUBSET {"id", "type", "activity_id", "latest"}}

\* The numeral of whole seconds, three fraction digits and further digits.
Numeral(whole, thousandths, more) ==
    <<DecimalDigits[whole + 1], ".",
      DecimalDigits[(thousandths \div 100) + 1],
      DecimalDigits[((thousandths \div 10) % 10) + 1],
      DecimalDigits[(thousandths % 10) + 1]>> \o more

TimingValues ==
    {Numeral(w, m, more) :
        w \in 0..MaxSeconds, m \in 0..MaxMillis, more \in {<<>>, <<"5">>}}

\* One timing of a server-timing header: metric=value; "metric"
Timing(metric, value) == <<metric, "=">> \o value \o <<";", " ", metric>>

\* The server-timing headers of the backend: none, or the total alone or
\* after another timing.
ServerTimings ==
    {None}
    \cup {Some(Timing("total", v)) : v \in TimingValues}
    \cup {Some(Timing("overall", Numeral(0, 170 % (MaxMillis + 1), <<>>))
               \o <<",">> \o Timing("total", v)) : v \in TimingValues}

\* The records of a backend result: a subject with one entry, whose content
\* may carry a score of its own (0.9, in tenths).
MetaResults ==
    {[subject |-> "s", entries |-> <<[content |-> c]>>] :
        c \in {[title |-> "t"], [title |-> "t", score |-> 9]}}

RECURSIVE SeqsUpTo(_, _)
\* The sequences over S of length at most n.
SeqsUpTo(S, n) ==
    IF n = 0 THEN {<<>>}
    ELSE LET shorter == SeqsUpTo(S, n - 1)
         IN  shorter \cup {Append(s, x) : s \in shorter, x \in S}

\* The queries that ask for facets.
FacetQueries ==
    {ESGSearchQuery(RouteDefaults \cup {"facets"}, "", facets, 0, 0, 0, 0,
                    <<>>, DefaultType, <<>>, FALSE) :
        facets \in {<<"a">>}}

\* The buckets the backend counts for a facet.
Buckets == {[value |-> "x", count |-> 2], [value |-> "y", count |-> 1]}

\* The facet_results of the backend for a query's facets: one result for
\* each facet asked, under its name.
FacetResultsFor(globus_query) ==
    LET facets == Val(globus_query.facets)
    IN  {[i \in 1..Len(facets) |-> [name |-> facets[i].name, buckets |-> b]] :
            b \in SeqsUpTo(Buckets, MaxBuckets)}

AInit ==
    /\ aq = None
    /\ arows = None
    /\ afacets = None
    /\ alegacy = None

\* The rows response of a query arrives and the response hook runs on it.
RowsArrive ==
    /\ aq = None
    /\ \E q \in EchoQueries \cup FacetQueries :
       \E server_timing \in ServerTimings :
       \E gmeta \in SeqsUpTo(MetaResults, MaxDocs) :
          /\ aq' = Some(q)
          /\ arows' = Some([server_timing |-> server_timing,
                            extensions |->
                                [globus_timings |-> globus_timings(server_timing)],
                            result |-> [gmeta |-> gmeta, offset |-> 0,
                                        total |-> Len(gmeta),
                                        facet_results |-> None]])
    /\ UNCHANGED <<afacets, alegacy, mvars, xvars, rvars, wvars>>

\* The facets response of a query that asks for facets arrives: it has no
\* rows (the facets query has a limit of 0), the total the backend counts at
\* that moment and the facet results.
FacetsArrive ==
    /\ aq # None
    /\ afacets = None
    /\ alegacy = None
    /\ Truthy(from_esg_search_query(Val(aq)).facets)
    /\ \E total \in 0..MaxDocs :
       \E facet_results \in FacetResultsFor(from_esg_search_query(Val(aq))) :
          afacets' = Some([gmeta |-> <<>>, offset |-> 0, total |-> total,
                           facet_results |-> Some(facet_results)])
    /\ UNCHANGED <<aq, arows, alegacy, mvars, xvars, rvars, wvars>>

\* search_globus builds the legacy response from the rows response: the
\* lookup of the total timing raises when the hook left no timings.
Assemble ==
    /\ aq # None
    /\ alegacy = None
    /\ Truthy(from_esg_search_query(Val(aq)).facets) => afacets # None
    /\ LET timings == Val(arows).extensions.globus_timings
           globus_result == merge_responses(from_esg_search_query(Val(aq)),
                                            Val(arows).result, afacets)
       IN  alegacy' =
              IF timings = None \/ <<"total">> \notin DOMAIN Val(timings)
              THEN Some([raised |-> "KeyError", body |-> None])
              ELSE Some([raised |-> "",
                         body |-> Some(from_results(Val(aq),
                                                    Val(timings)[<<"total">>],
                                                    globus_result))])
    /\ UNCHANGED <<aq, arows, afacets, mvars, xvars, rvars, wvars>>

\* The response has gone out.
Deliver ==
    /\ alegacy # None
    /\ aq' = None
    /\ arows' = None
    /\ afacets' = None
    /\ alegacy' = None
    /\ UNCHANGED <<mvars, xvars, rvars, wvars>>

ANext == RowsArrive \/ FacetsArrive \/ Assemble \/ Deliver

-----------------------------------------------------------------------------
(* routes.py: the /search alias *)

\* Bound of the query strings.
MaxParams == 3

ParamNames == {"project", "limit"}
ParamValues == {"a", "b"}

RECURSIVE first_seen(_)
\* The keys of a dict built from a list of pairs, in insertion order: a
\* repeated key keeps the place of its first occurrence.
first_seen(items) ==
    IF items = <<>> THEN <<>>
    ELSE LET front == SubSeq(items, 1, Len(items) - 1)
             key == items[Len(items)][1]
         IN  IF \E i \in 1..Len(front) : front[i][1] = key
             THEN first_seen(front)
             ELSE Append(first_seen(front), key)

\* The value a dict built from a list of pairs holds for key: that of the
\* last pair with the key.
last_value(items, key) ==
    LET i == CHOOSE k \in 1..Len(items) :
                 /\ items[k][1] = key
                 /\ \A j \in (k + 1)..Len(items) : items[j][1] # key
    IN  items[i][2]

\* **request.query_params read every name once: QueryParams is unpacked
\* through keys() and __getitem__, which are those of the dict built from
\* the list of pairs.
unpack_all_pairs(query_params) == query_params

\* **request.query_params: the keyword arguments QueryParams unpacks to, one
\* per distinct name, holding the name's last value.
unpack(query_params) ==
    LET keys == first_seen(query_params)
    IN  [i \in 1..Len(keys) |-> <<keys[i], last_value(query_params, keys[i])>>]

\* URL.include_query_params(**kwargs) on a URL without a query: the keyword
\* arguments become the query, in their order.
include_query_params(url, kwargs) == [url EXCEPT !.query = kwargs]

\* request.url_for("search"): the first route of that name, the root path.
url_for_search == [path |-> "/", query |-> <<>>]

\* search(request): the redirect to the search operation.
search(request) ==
    [status_code |-> 308,
     location |-> include_query_params(url_for_search, unpack(request.query_params))]

RInit ==
    /\ rreq = None
    /\ rresp = None

\* GET /search?... arrives.
AliasRequest ==
    /\ rreq = None
    /\ \E query_params \in SeqsUpTo(ParamNames \X ParamValues, MaxParams) :
          rreq' = Some([path |-> "/search", query_params |-> query_params])
    /\ UNCHANGED <<rresp, mvars, xvars, avars, wvars>>

\* The alias answers.
Redirect ==
    /\ rreq # None
    /\ rresp = None
    /\ rresp' = Some(search(Val(rreq)))
    /\ UNCHANGED <<rreq, mvars, xvars, avars, wvars>>

\* The redirect has gone out.
AliasDone ==
    /\ rresp # None
    /\ rreq' = None
    /\ rresp' = None
    /\ UNCHANGED <<mvars, xvars, avars, wvars>>

RNext == AliasRequest \/ Redirect \/ AliasDone

-----------------------------------------------------------------------------
(* globus.py: the token renewal task and the application's lifespan *)

\* settings.globus.token_renewal_interval, in seconds.
RenewalInterval == 3600

\* Bounds: the seconds that pass in one step of the clock, the length of
\* other_tokens, and the cap of the count of token requests.
SleepStep == 1800
MaxOtherTokens == 2
MaxTokenRequests == 3

SearchServer == "search.api.globus.org"

\* The settings a deployment may carry: each credential unset, empty or set.
CredentialValues == {None, Some(<<>>), Some(<<"credential">>)}

\* The tokens of a token response's other_tokens.
OtherTokens ==
    {[resource_server |-> SearchServer, access_token |-> <<"t1">>],
     [resource_server |-> SearchServer, access_token |-> <<"t2">>],
     [resource_server |-> "transfer.api.globus.org", access_token |-> <<"x">>]}

\* The token responses of the auth service.
TokenResponses ==
    {[resource_server |-> rs, access_token |-> <<"main">>, other_tokens |-> others] :
        rs \in {SearchServer, "groups.api.globus.org"},
        others \in SeqsUpTo(OtherTokens, MaxOtherTokens)}

\* What the auth service may answer with that is no token document: a body
\* that is not JSON, the error document of a rejected request, a token for
\* another service without other_tokens, and a search token without its
\* access_token.
MalformedTokenResponses ==
    {[not_json |-> TRUE],
     [error |-> "invalid_client"],
     [resource_server |-> "groups.api.globus.org", access_token |-> <<"main">>],
     [resource_server |-> SearchServer]}

\* The exception keep_token_fresh runs into on a body that is no token
\* document, "" when there is none: token_response.json() raises on a body
\* that is not JSON, and the lookups of resource_server, other_tokens and
\* access_token raise KeyError on a document without them.
token_document_error(document) ==
    IF "not_json" \in DOMAIN document THEN "JSONDecodeError"
    ELSE IF "resource_server" \notin DOMAIN document THEN "KeyError"
    ELSE IF document.resource_server = SearchServer
    THEN IF "access_token" \in DOMAIN document THEN "" ELSE "KeyError"
    ELSE IF "other_tokens" \in DOMAIN document THEN "" ELSE "KeyError"

\* find_search_token looking through other_tokens before the top-level
\* token and taking the last of them that is for the search service.
find_search_token_others_first(token_response) ==
    LET others == token_response.other_tokens
        hits == {i \in 1..Len(others) : others[i].resource_server = SearchServer}
    IN  IF hits # {}
        THEN Some(others[CHOOSE i \in hits : \A j \in hits : i >= j])
        ELSE IF token_response.resource_server = SearchServer
        THEN Some([resource_server |-> token_response.resource_server,
                   access_token |-> token_response.access_token])
        ELSE None

\* find_search_token falling back to the top-level token.
find_search_token_lenient(token_response) ==
    IF token_response.resource_server = SearchServer
    THEN Some([resource_server |-> token_response.resource_server,
               access_token |-> token_response.access_token])
    ELSE LET others == token_response.other_tokens
             hits == {i \in 1..Len(others) : others[i].resource_server = SearchServer}
         IN  IF hits # {}
             THEN Some(others[CHOOSE i \in hits : \A j \in hits : i <= j])
             ELSE Some([resource_server |-> token_response.resource_server,
                        access_token |-> token_response.access_token])

\* find_search_token(token_response): the top-level token if it is for the
\* search service, else the first of other_tokens that is; None stands for
\* the RuntimeError raised when there is none.
find_search_token(token_response) ==
    IF token_response.resource_server = SearchServer
    THEN Some([resource_server |-> token_response.resource_server,
               access_token |-> token_response.access_token])
    ELSE LET others == token_response.other_tokens
             hits == {i \in 1..Len(others) : others[i].resource_server = SearchServer}
         IN  IF hits # {}
             THEN Some(others[CHOOSE i \in hits : \A j \in hits : i <= j])
             ELSE None

\* A token request that goes through the cache like any other request.
token_request_extensions_plain == [cache_disabled |-> FALSE]

\* The extensions keep_token_fresh posts the token request with.
token_request_extensions == [cache_disabled |-> TRUE]

\* The Cache-Control directives the caching transport adds to a request whose
\* extensions disable the cache.
request_cache_control(extensions) ==
    IF extensions.cache_disabled THEN {"no-store", "max-age=0"} ELSE {}

\* What the auth service may say about caching its answer.
TokenCacheControls == {"no-store", "max-age=300"}

\* Whether the cache stores the response to a request that does not force
\* caching: a 200 to a POST (a cacheable method of this client), no no-store
\* on the request or the response, and a freshness lifetime on the response.
is_cachable_unforced(directives, status, response_cache_control) ==
    /\ status = 200
    /\ "no-store" \notin directives
    /\ response_cache_control # "no-store"
    /\ response_cache_control = "max-age=300"

\* Whether the cache answers a request that does not force caching from a
\* stored response: there is one and the request accepts its age.
served_from_cache(directives, stored) ==
    stored # None /\ "max-age=0" \notin directives

\* No renewer: the lifespan has not been entered.
NoRenewer ==
    [kind |-> "none", pc |-> "", sleep_left |-> 0, error |-> "",
     token_response |-> None, cancelled_in |-> "", from_cache |-> FALSE]

\* lifespan_manager starting the task when either credential is set.
lifespan_manager_either(s) ==
    IF Truthy(s.client_id) \/ Truthy(s.client_secret)
    THEN [NoRenewer EXCEPT !.kind = "task", !.pc = "created"]
    ELSE [NoRenewer EXCEPT !.kind = "future", !.pc = "pending"]

\* lifespan_manager(app) up to its yield: with both credentials set the
\* renewer is a task running keep_token_fresh, otherwise a bare Future.
lifespan_manager(s) ==
    IF Truthy(s.client_id) /\ Truthy(s.client_secret)
    THEN [NoRenewer EXCEPT !.kind = "task", !.pc = "created"]
    ELSE [NoRenewer EXCEPT !.kind = "future", !.pc = "pending"]

\* A cancel() that leaves the renewer running.
cancel_ignored(r) == r

\* renewer.cancel(): a task or future that is not done is cancelled where it
\* waits; a task that has ended is left as it is.
cancel(r) ==
    IF r.pc \in {"created", "post", "sleep", "pending"}
    THEN [r EXCEPT !.pc = "cancelled", !.cancelled_in = r.pc]
    ELSE r

\* A loop that starts over after a failed cycle.
renewal_due_or_failed(r) ==
    (r.pc = "sleep" /\ r.sleep_left = 0) \/ r.pc = "failed"

\* A loop that ends after its first sleep.
renewal_due_once(r) == FALSE

\* keep_token_fresh's loop: asyncio.sleep(token_renewal_interval) has
\* returned and the loop body runs again.
renewal_due(r) == r.pc = "sleep" /\ r.sleep_left = 0

\* The Authorization header sent whether a token is installed or not: with
\* none the header reads "Bearer None".
auth_header_unconditional(token) ==
    Some(<<"Bearer", " ">> \o (IF token = None THEN <<"None">> ELSE Val(token)))

\* ThinSearchClient.search: the Authorization header, sent only with a
\* non-empty access token.
auth_header(token) ==
    IF Truthy(token) THEN Some(<<"Bearer", " ">> \o Val(token)) ELSE None

WInit ==
    /\ app = "created"
    /\ settings = None
    /\ renewer = NoRenewer
    /\ access_token = None
    /\ token_requests = 0
    /\ search_auth = [sent |-> FALSE, header |-> None]
    /\ token_cache = None

\* The application starts: the lifespan is entered with the deployment's
\* settings.
Startup ==
    /\ app = "created"
    /\ \E id \in CredentialValues :
       \E secret \in CredentialValues :
          LET s == [client_id |-> id, client_secret |-> secret]
          IN  /\ settings' = Some(s)
              /\ renewer' = lifespan_manager(s)
    /\ app' = "running"
    /\ UNCHANGED <<access_token, token_requests, search_auth, token_cache,
                   mvars, xvars, avars, rvars>>

\* keep_token_fresh posts a token request: on its first step, and again
\* whenever its sleep has returned.  The client looks the request up in its
\* cache and sends it to the auth service unless the cache answers it.
RequestToken ==
    /\ renewer.kind = "task"
    /\ renewer.pc = "created" \/ renewal_due(renewer)
    /\ renewer' = [renewer EXCEPT
                      !.pc = "post",
                      !.from_cache = served_from_cache(
                          request_cache_control(token_request_extensions),
                          token_cache)]
    /\ token_requests' = IF token_requests < MaxTokenRequests
                         THEN token_requests + 1 ELSE token_requests
    /\ UNCHANGED <<app, settings, access_token, search_auth, token_cache,
                   mvars, xvars, avars, rvars>>

\* The token request is answered, by the auth service or from the cache: a
\* response of the auth service is stored if the cache takes it; the search
\* token is looked up and installed and the task goes to sleep, or the body
\* is no token document or the lookup raises, and the task ends.
TokenReply ==
    /\ renewer.pc = "post"
    /\ \E token_response \in IF renewer.from_cache THEN {Val(token_cache)}
                              ELSE TokenResponses \cup MalformedTokenResponses :
       \E response_cache_control \in TokenCacheControls :
          LET raised == token_document_error(token_response)
              search_token == IF raised = "" THEN find_search_token(token_response)
                              ELSE None
              stores == /\ ~renewer.from_cache
                        /\ is_cachable_unforced(
                               request_cache_control(token_request_extensions),
                               200, response_cache_control)
          IN  /\ token_cache' = IF stores THEN Some(token_response) ELSE token_cache
              /\ IF raised # ""
                 THEN /\ access_token' = access_token
                      /\ renewer' = [renewer EXCEPT !.pc = "failed",
                                                    !.error = raised]
                 ELSE IF search_token # None
                 THEN /\ access_token' = Some(Val(search_token).access_token)
                      /\ renewer' = [renewer EXCEPT
                                        !.pc = "sleep",
                                        !.sleep_left = RenewalInterval,
                                        !.token_response = Some(token_response)]
                 ELSE /\ access_token' = access_token
                      /\ renewer' = [renewer EXCEPT
                                        !.pc = "failed",
                                        !.error = "RuntimeError",
                                        !.token_response = Some(token_response)]
    /\ UNCHANGED <<app, settings, token_requests, search_auth,
                   mvars, xvars, avars, rvars>>

\* The token request fails in transport (a timeout, a refused connection):
\* the exception ends the task.
TokenRequestFails ==
    /\ renewer.pc = "post"
    /\ ~renewer.from_cache
    /\ renewer' = [renewer EXCEPT !.pc = "failed", !.error = "TransportError"]
    /\ UNCHANGED <<app, settings, access_token, token_requests, search_auth,
                   token_cache, mvars, xvars, avars, rvars>>

\* Time passes while the task sleeps; the cache's storage drops an entry
\* older than its TTL.
SleepTick ==
    /\ renewer.pc = "sleep"
    /\ renewer.sleep_left > 0
    /\ renewer' = [renewer EXCEPT !.sleep_left =
                      IF @ > SleepStep THEN @ - SleepStep ELSE 0]
    /\ token_cache' = IF SleepStep > TTL THEN None ELSE token_cache
    /\ UNCHANGED <<app, settings, access_token, token_requests, search_auth,
                   mvars, xvars, avars, rvars>>

\* A request handler sends a search call with the token it finds.
SearchCall ==
    /\ app = "running"
    /\ search_auth' = [sent |-> TRUE, header |-> auth_header(access_token)]
    /\ UNCHANGED <<app, settings, renewer, access_token, token_requests,
                   token_cache, mvars, xvars, avars, rvars>>

\* The application shuts down: the lifespan resumes after its yield.
Shutdown ==
    /\ app = "running"
    /\ app' = "shutdown"
    /\ renewer' = cancel(renewer)
    /\ UNCHANGED <<settings, access_token, token_requests, search_auth,
                   token_cache, mvars, xvars, avars, rvars>>

WNext ==
    \/ Startup
    \/ RequestToken
    \/ TokenReply
    \/ TokenRequestFails
    \/ SleepTick
    \/ SearchCall
    \/ Shutdown

-----------------------------------------------------------------------------
(* The specifications *)

Init == MInit /\ XInit /\ AInit /\ RInit /\ WInit

Next ==
    \/ \E h \in Handlers : Request(h)
    \/ \E h \in Handlers : RowsCall(h)
    \/ \E h \in Handlers : BackendReply(h)
    \/ \E h \in Handlers : BackendTimeout(h)
    \/ \E h \in Handlers : AfterRows(h)
    \/ \E h \in Handlers : AfterFacets(h)
    \/ Tick

\* The search operation under concurrent requests.
Spec == Init /\ [][Next]_vars

RaceNext ==
    \/ \E h \in Handlers : RaceRequest(h)
    \/ \E h \in Handlers : RowsCall(h)
    \/ \E h \in Handlers : BackendReply(h)
    \/ \E h \in Handlers : BackendTimeout(h)
    \/ \E h \in Handlers : AfterRows(h)
    \/ Tick

\* Requests for one rows query, two of them at a time.
SpecRace == Init /\ [][RaceNext]_vars

\* The mapper alone, on every bounded query.
SpecMap == Init /\ [][MNext]_vars

\* The assembly of the legacy response.
SpecAssemble == Init /\ [][ANext]_vars

\* The /search alias.
SpecAlias == Init /\ [][RNext]_vars

\* The token renewal task over the application's lifespan.
SpecWatchdog == Init /\ [][WNext]_vars

\* The same, with the event loop running the task whenever it can and time
\* passing while it sleeps.
SpecWatchdogLive ==
    Init /\ [][WNext]_vars /\ WF_vars(RequestToken) /\ WF_vars(SleepTick)

-----------------------------------------------------------------------------
(* Properties of the search operation (checked under Spec) *)

\* The mapped structured query of the request h is serving.
MappedQuery(h) == from_esg_search_query(Val(handler[h].q))

\* The body of search_globus has started for the request of handler h.
Started(h) == handler[h].q # None /\ handler[h].pc # "ready"

Done(h) == handler[h].pc = "done"

\* The rows response has arrived and was served from the cache.
RowsFromCache(h) ==
    /\ handler[h].rows_response # None
    /\ Val(handler[h].rows_response).from_cache

\* The rows response has arrived and came from the backend.
RowsFromBackend(h) ==
    /\ handler[h].rows_response # None
    /\ ~Val(handler[h].rows_response).from_cache

\* search_globus has run past the validation of the conditional headers.
PastValidation(h) ==
    handler[h].rows_response # None /\ handler[h].pc # "rows_resp"

\* The calls are the rows query, then at most the facets query.
CallsInOrder(h) ==
    LET calls == handler[h].calls
        g == MappedQuery(h)
    IN  /\ Len(calls) \in {1, 2}
        /\ calls[1] = [g EXCEPT !.facets = Some(<<>>)]
        /\ Len(calls) = 2 =>
              /\ Truthy(g.facets)
              /\ calls[2] = [g EXCEPT !.limit = 0]

\* C1 as stated: the calls are the rows query (facets emptied) and then, only
\* with facets, the facets query (limit 0); a request with facets whose rows
\* call was answered issues exactly two calls, one without facets exactly one.
C1_Original ==
    \A h \in Handlers :
        Started(h) =>
            /\ CallsInOrder(h)
            /\ (Done(h) /\ handler[h].rows_response # None) =>
                  Len(handler[h].calls) = IF Truthy(MappedQuery(h).facets) THEN 2 ELSE 1

\* C1 amended: the calls are the rows query and then, only with facets, the
\* facets query; a request with facets issues exactly two calls once its rows
\* response has passed the validation of the conditional headers, and only
\* the rows call when the rows call fails or the validation raises; a request
\* without facets issues exactly one.
C1_Calls ==
    \A h \in Handlers :
        Started(h) =>
            /\ CallsInOrder(h)
            /\ (PastValidation(h) /\ handler[h].exc # "HTTPException") =>
                  Len(handler[h].calls) = IF Truthy(MappedQuery(h).facets) THEN 2 ELSE 1
            /\ (Done(h) /\ (handler[h].rows_response = None
                            \/ handler[h].exc = "HTTPException")) =>
                  Len(handler[h].calls) = 1

C1_Witness ==
    \E h \in Handlers :
        /\ Done(h)
        /\ handler[h].status = 200
        /\ Truthy(MappedQuery(h).facets)
        /\ Len(handler[h].calls) = 2

\* C2: the facets query is issued only after the validation of the
\* conditional headers against the rows response has completed, and a
\* request whose validation raised (304 or 412) issued no facets query.
C2_ValidateBeforeFacets ==
    \A h \in Handlers :
        LET events == handler[h].events
        IN  /\ \A j \in 1..Len(events) :
                  events[j] = "facets_call" =>
                      \E i \in 1..(j - 1) : events[i] = "validate"
            /\ Len(handler[h].calls) = 2 <=>
                  \E j \in 1..Len(events) : events[j] = "facets_call"
            /\ (Done(h) /\ handler[h].exc = "HTTPException") =>
                  /\ handler[h].status \in {304, 412}
                  /\ Len(handler[h].calls) = 1

C2_Witness ==
    \E h \in Handlers :
        /\ Done(h)
        /\ Truthy(MappedQuery(h).facets)
        /\ handler[h].status = 304
        /\ handler[h].calls = <<WITHOUT_FACETS(MappedQuery(h))>>

\* The request carries the named header with a value equal to the cache key
\* of the rows response.
HeaderMatchesKey(h, name) ==
    /\ Truthy(handler[h].headers[name])
    /\ Val(handler[h].headers[name]) = Val(Val(handler[h].rows_response).cache_key)

\* The request carries the named header with a value other than the cache
\* key of the rows response.
HeaderDiffersFromKey(h, name) ==
    /\ Truthy(handler[h].headers[name])
    /\ Val(handler[h].headers[name]) # Val(Val(handler[h].rows_response).cache_key)

\* C3: a rows response served from the cache and an if-none-match header
\* equal to its cache key end the search in 304, not in a legacy response.
C3_NotModified ==
    \A h \in Handlers :
        (PastValidation(h) /\ RowsFromCache(h) /\ HeaderMatchesKey(h, "if_none_match")) =>
            /\ Done(h)
            /\ handler[h].exc = "HTTPException"
            /\ handler[h].status = 304

C3_Witness ==
    \E h \in Handlers :
        /\ RowsFromCache(h)
        /\ HeaderMatchesKey(h, "if_none_match")
        /\ handler[h].status = 304

\* C4: a rows response served from the cache and an if-match header that
\* differs from its cache key end the search in 412, whatever other headers
\* the request carries.
C4_PreconditionFailed ==
    \A h \in Handlers :
        (PastValidation(h) /\ RowsFromCache(h) /\ HeaderDiffersFromKey(h, "if_match")) =>
            /\ Done(h)
            /\ handler[h].exc = "HTTPException"
            /\ handler[h].status = 412

\* C5: when the rows response came from the backend, the search never ends
\* in 304 or 412, whatever conditional headers the client sent.
C5_NoCheckOnMiss ==
    \A h \in Handlers :
        RowsFromBackend(h) =>
            /\ handler[h].exc # "HTTPException"
            /\ handler[h].status \notin {304, 412}

C5_Witness ==
    \E h \in Handlers :
        /\ RowsFromBackend(h)
        /\ Done(h)
        /\ handler[h].status = 200
        /\ handler[h].headers.if_none_match =
              Some(cache_key(WITHOUT_FACETS(MappedQuery(h))))
        /\ handler[h].headers.if_match = Some(<<"some_other_cache_key">>)

\* Handler h sends a search call through the client in this step.
IssuesCall(h) ==
    \/ /\ handler[h].pc = "ready"
       /\ handler'[h].pc \in {"rows_wait", "rows_resp"}
    \/ /\ handler[h].pc = "rows_resp"
       /\ handler'[h].pc \in {"facets_wait", "facets_resp"}

\* C6: a search call is served from the cache, without a backend invocation,
\* exactly when the backend answered an identical call with a response that
\* was stored no more than the TTL ago, whatever Cache-Control the backend
\* sent; otherwise the backend is invoked again.
C6_CacheWithinTTL ==
    [][\A h \in Handlers :
          IssuesCall(h) =>
              LET hr == handler'[h]
                  key == cache_key(hr.calls[Len(hr.calls)])
                  within == /\ stored_at[key] # None
                            /\ now - Val(stored_at[key]) <= TTL
                  served == hr.pc \in {"rows_resp", "facets_resp"}
                  response == IF hr.pc = "rows_resp" THEN hr.rows_response
                              ELSE hr.facets_response
              IN  /\ served <=> within
                  /\ served => /\ Val(response).from_cache
                               /\ backend_calls' = backend_calls
                  /\ ~served => backend_calls' = backend_calls + 1]_vars

C6_Witness ==
    /\ nreq = 2
    /\ backend_calls = 1
    /\ now > 0
    /\ \E h \in Handlers : RowsFromCache(h)

\* The legacy responses (the 200s) carry the fixed cache-control policy.
LegacyResponsesCarryPolicy ==
    \A h \in Handlers :
        (Done(h) /\ handler[h].exc = "") =>
            /\ handler[h].status = 200
            /\ handler[h].cache_control = Some(CacheControlPolicy)

\* C7: every response the search operation gives its caller, the legacy
\* response as well as a 304, a 412 or an error response, carries the fixed
\* cache-control policy, whether its rows response was a cache hit or not.
C7_CacheControl ==
    \A h \in Handlers :
        Done(h) => handler[h].cache_control = Some(CacheControlPolicy)

\* A request answered 304 from a cache hit.
C7_NotModified ==
    \E h \in Handlers :
        /\ Done(h)
        /\ RowsFromCache(h)
        /\ handler[h].status = 304

-----------------------------------------------------------------------------
(* Properties of the mapper (checked under SpecMap) *)

Mapped == mq # None /\ mg # None

\* The filters of the mapped query, [] when the field is None.
BuiltFilters == IF Val(mg).filters = None THEN <<>> ELSE Val(Val(mg).filters)

\* The positions of the filters of the given type on the given field.
FiltersOn(type, field) ==
    {i \in 1..Len(BuiltFilters) :
        BuiltFilters[i].type = type /\ BuiltFilters[i].field_name = field}

\* C8 as stated: no q when the free-text string is "*" or "*:*", q equal to
\* the free-text string for any other (non-empty) value.
C8_Original ==
    Mapped =>
        LET text == Val(mq).query
        IN  (text # None /\ Val(text) # "") =>
                IF Val(text) \in {"*", "*:*"}
                THEN Val(mg).q = None
                ELSE Val(mg).q = text

\* C8 amended: the mapped query has no q when the free-text string is absent,
\* empty or "*", and q equal to the free-text string for any other value,
\* "*:*" included.
C8_FreeText ==
    Mapped =>
        LET text == Val(mq).query
        IN  IF text = None \/ Val(text) \in {"", "*"}
            THEN Val(mg).q = None
            ELSE Val(mg).q = text

C8_Witness ==
    /\ Mapped
    /\ Val(mq).query = Some("*:*")
    /\ Val(mg).q = Some("*:*")

\* The value of a queryable field is the empty string.
IsEmptyValue(f, value) ==
    IF FieldKind(f) = "str" THEN value = <<>>
    ELSE IF FieldKind(f) = "list" THEN value = <<<<>>>>
    ELSE FALSE

\* The field's value coerced to a list, comma-split if a string.
CoercedValues(f, value) ==
    IF FieldKind(f) = "str" THEN split(value, ",")
    ELSE IF FieldKind(f) = "list" THEN value
    ELSE <<value>>

\* C9: exactly one match_any filter for each queryable field the caller set
\* to a non-empty value, holding the value coerced to a list, and no match
\* filter for a queryable field that is absent, defaulted or set to the empty
\* string.
C9_MatchFilters ==
    Mapped =>
        \A f \in _queriable_fields :
            LET query == Val(mq)
                found == FiltersOn("match_any", f) \cup FiltersOn("match_all", f)
            IN  IF f \in query.model_fields_set /\ ~IsEmptyValue(f, Val(query[f]))
                THEN /\ Cardinality(found) = 1
                     /\ \A i \in found :
                          /\ BuiltFilters[i].type = "match_any"
                          /\ BuiltFilters[i].values = CoercedValues(f, Val(query[f]))
                ELSE found = {}

\* The bound of a range: the value when the caller set it, "*" otherwise.
BoundOf(query, f, kind) ==
    IF f \in query.model_fields_set THEN <<kind, Val(query[f])>> ELSE Star

\* C10: for each bound pair, if at least one bound is set there is exactly
\* one range filter on the pair's field, whose from and to are the set bounds
\* and "*" for an unset bound (0 is a set bound); if neither is set there is
\* no range filter on that field.
C10_RangeFilters ==
    Mapped =>
        \A pair \in {<<"min_version", "max_version", "version", "int">>,
                     <<"from_", "to", "_timestamp", "datetime">>} :
            LET query == Val(mq)
                found == FiltersOn("range", pair[3])
            IN  IF {pair[1], pair[2]} \cap query.model_fields_set # {}
                THEN /\ Cardinality(found) = 1
                     /\ \A i \in found :
                          BuiltFilters[i].values =
                              <<[from_ |-> BoundOf(query, pair[1], pair[4]),
                                 to    |-> BoundOf(query, pair[2], pair[4])]>>
                ELSE found = {}

C10_Witness ==
    /\ Mapped
    /\ Val(mq).model_fields_set \cap {"min_version", "max_version"} = {"min_version"}
    /\ Val(mq).min_version = Some(0)
    /\ \E i \in FiltersOn("range", "version") :
          BuiltFilters[i].values = <<[from_ |-> <<"int", 0>>, to |-> Star]>>

-----------------------------------------------------------------------------
(* Properties of the legacy response (checked under SpecAssemble) *)

\* A legacy response has been assembled.
Assembled == alegacy # None /\ Val(alegacy).raised = ""

LegacyBody == Val(Val(alegacy).body)

\* The fq echo as a list of fragments.
FqFragments ==
    LET fq == LegacyBody.responseHeader.params.fq
    IN  IF fq.kind = "str" THEN <<fq.value>> ELSE fq.value

\* The queryable fields of the query that hold a value, in declaration order.
RECURSIVE ValuedFields(_)
ValuedFields(i) ==
    IF i > Len(DeclaredFields) THEN <<>>
    ELSE (IF Val(aq)[DeclaredFields[i]] # None THEN <<DeclaredFields[i]>> ELSE <<>>)
         \o ValuedFields(i + 1)

\* The text of a term.
TermText(f, term) ==
    IF FieldKind(f) = "bool" THEN <<IF term THEN "True" ELSE "False">> ELSE term

\* A term that is a string carrying no double quote at either end.
PlainString(f, term) ==
    /\ FieldKind(f) # "bool"
    /\ term = <<>> \/ (term[1] # QUOTE /\ term[Len(term)] # QUOTE)

\* Whether a term is to be quoted: under "unless_type" every term of a field
\* other than type, under "plain_string" only those that are plain strings.
Quoted(rule, f, term) ==
    /\ f # "type"
    /\ rule = "plain_string" => PlainString(f, term)

RECURSIVE Rendered(_, _, _)
\* The terms rendered as field:term, quoted as the rule says, with " || "
\* between them.
Rendered(f, terms, rule) ==
    LET term == terms[Len(terms)]
        one == <<f, ":">> \o (IF Quoted(rule, f, term)
                              THEN <<QUOTE>> \o TermText(f, term) \o <<QUOTE>>
                              ELSE TermText(f, term))
    IN  IF Len(terms) = 1 THEN one
        ELSE Rendered(f, SubSeq(terms, 1, Len(terms) - 1), rule) \o <<" || ">> \o one

\* C11 as stated: every value of a field is rendered as field:"value", quoted
\* unless the field is type, and the values of one field are joined with
\* " || " in their order.
C11_Original ==
    Assembled =>
        LET fields == ValuedFields(1)
        IN  /\ Len(FqFragments) = Len(fields)
            /\ \A i \in 1..Len(fields) :
                  FqFragments[i] =
                      Rendered(fields[i],
                               CoercedValues(fields[i], Val(Val(aq)[fields[i]])),
                               "unless_type")

\* C11 amended: every value of a field is rendered as field:value; the value
\* is wrapped in double quotes when the field is not type and the value is a
\* string that neither starts nor ends with a double quote, and is rendered as
\* it is otherwise (a boolean as True or False); the values of one field are
\* joined with " || " in their order.
C11_FormatFq ==
    Assembled =>
        LET fields == ValuedFields(1)
        IN  /\ Len(FqFragments) = Len(fields)
            /\ \A i \in 1..Len(fields) :
                  FqFragments[i] =
                      Rendered(fields[i],
                               CoercedValues(fields[i], Val(Val(aq)[fields[i]])),
                               "plain_string")

C11_Witness ==
    /\ Assembled
    /\ Val(aq).type = Some(<<"File">>)
    /\ Val(aq).latest = Some(TRUE)
    /\ Val(aq).id = Some(<<"a", ",", "b">>)
    /\ FqFragments = << <<"id", ":", QUOTE, "a", QUOTE, " || ", "id", ":", QUOTE, "b", QUOTE>>,
                        <<"type", ":", "File">>,
                        <<"latest", ":", "True">> >>

\* C12: the fq echo is a single string, the fragment itself, when one
\* queryable field holds a value, and the list of the fields' fragments when
\* two or more do; no query has none, since type always holds a value.
C12_FqShape ==
    Assembled =>
        LET fq == LegacyBody.responseHeader.params.fq
            n == Cardinality({f \in _queriable_fields : Val(aq)[f] # None})
        IN  /\ n >= 1
            /\ n = 1 => /\ fq.kind = "str"
                        /\ fq.value # <<>>
                        /\ fq.value[1] = "type"
            /\ n >= 2 => /\ fq.kind = "list"
                         /\ Len(fq.value) = n
                         /\ \A i \in 1..n : fq.value[i][1] = ValuedFields(1)[i]

C12_Witness ==
    /\ Assembled
    /\ Val(aq).model_fields_set = RouteDefaults
    /\ LegacyBody.responseHeader.params.fq =
          [kind |-> "str", value |-> <<"type", ":", "Dataset">>]

\* C13: maxScore is None when docs is empty and otherwise the largest of the
\* docs' scores; every doc carries the synthesized score, whatever its
\* backend record held, so a non-empty result has that score as maxScore.
C13_MaxScore ==
    Assembled =>
        LET docs == LegacyBody.response.docs
            found == LegacyBody.response.maxScore
        IN  /\ Len(docs) = Len(Val(arows).result.gmeta)
            /\ \A i \in 1..Len(docs) : docs[i].score = SyntheticScore
            /\ docs = <<>> <=> found = None
            /\ docs # <<>> =>
                  /\ \E i \in 1..Len(docs) : Val(found) = docs[i].score
                  /\ \A i \in 1..Len(docs) : Val(found) >= docs[i].score
                  /\ Val(found) = SyntheticScore

C13_Witness ==
    /\ Assembled
    /\ \E i \in 1..Len(Val(arows).result.gmeta) :
          LET content == Val(arows).result.gmeta[i].entries[1].content
          IN  "score" \in DOMAIN content /\ content.score > SyntheticScore
    /\ LegacyBody.response.maxScore = Some(SyntheticScore)

\* The whole milliseconds of a numeral of seconds: seconds times 1000 with
\* the fraction dropped.
TruncatedMillis(value) ==
    LET d == Decimal(value)
    IN  d.whole * 1000 + d.thousandths

\* C14: the server-timing header is parsed into a map from each timing's name
\* to its seconds times 1000, the fraction truncated, and QTime of the legacy
\* response is the map's total.
C14_Timings ==
    (arows # None /\ Val(arows).server_timing # None) =>
        LET pairs == TimingPairs(Val(Val(arows).server_timing))
            timings == Val(Val(arows).extensions.globus_timings)
        IN  /\ DOMAIN timings = {pairs[i][1] : i \in 1..Len(pairs)}
            /\ \A i \in 1..Len(pairs) :
                  timings[pairs[i][1]] = TruncatedMillis(pairs[i][2])
            /\ Assembled =>
                  LegacyBody.responseHeader.QTime = timings[<<"total">>]

-----------------------------------------------------------------------------
(* Properties of the token renewal (checked under SpecWatchdog) *)

\* The lifespan was entered with both credentials set to a non-empty value.
CredentialsConfigured ==
    /\ settings # None
    /\ Truthy(Val(settings).client_id)
    /\ Truthy(Val(settings).client_secret)

\* The task posts a token request in this step.
IssuesTokenRequest == renewer.pc # "post" /\ renewer'.pc = "post"

\* The task resumes with the auth service's answer in this step.
ProcessesReply ==
    /\ renewer.pc = "post"
    /\ renewer'.pc \in {"sleep", "failed"}
    /\ renewer'.error \in {"", "RuntimeError"}

\* Neither the top-level token nor any of other_tokens is for the search
\* service.
NoScopedToken(token_response) ==
    /\ token_response.resource_server # SearchServer
    /\ \A i \in 1..Len(token_response.other_tokens) :
          token_response.other_tokens[i].resource_server # SearchServer

\* The access tokens the auth service scopes to the search service.
ScopedAccessTokens ==
    {r.access_token : r \in {t \in TokenResponses : t.resource_server = SearchServer}}
    \cup {t.access_token : t \in {o \in OtherTokens : o.resource_server = SearchServer}}

\* C15: when the client id or the client secret is missing (unset or empty),
\* no renewal task is ever started, no token request is ever issued, and the
\* bearer token stays unset, so search calls go out without one.
C15_Disabled ==
    (settings # None /\ ~CredentialsConfigured) =>
        /\ renewer.kind = "future"
        /\ renewer.pc \in {"pending", "cancelled"}
        /\ token_requests = 0
        /\ access_token = None
        /\ search_auth.header = None

C15_Witness ==
    /\ app = "shutdown"
    /\ settings = Some([client_id |-> Some(<<"credential">>), client_secret |-> None])
    /\ search_auth.sent
    /\ renewer.kind = "future"

\* C16: when the auth service answers but no token of the answer is for the
\* search service, the task ends without scheduling another refresh and the
\* bearer token keeps the value it had; from then on no token request is
\* issued, the token does not change, and search calls carry that token.
C16_MissingScopedToken ==
    [][/\ (ProcessesReply /\ NoScopedToken(Val(renewer'.token_response))) =>
              /\ renewer'.pc = "failed"
              /\ renewer'.error = "RuntimeError"
              /\ access_token' = access_token
       /\ (renewer.pc = "failed" /\ renewer.error = "RuntimeError") =>
              /\ renewer' = renewer
              /\ ~IssuesTokenRequest
              /\ token_requests' = token_requests
              /\ access_token' = access_token
              /\ search_auth' # search_auth =>
                    search_auth'.header =
                        IF access_token = None THEN None
                        ELSE Some(<<"Bearer", " ">> \o Val(access_token))]_vars

C16_Witness ==
    /\ renewer.pc = "failed"
    /\ renewer.error = "RuntimeError"
    /\ NoScopedToken(Val(renewer.token_response))
    /\ token_requests >= 2
    /\ access_token = Some(<<"t1">>)
    /\ search_auth = [sent |-> TRUE, header |-> Some(<<"Bearer", " ", "t1">>)]

\* C17 (under SpecWatchdogLive): with credentials the renewer is a task whose
\* first step posts a token request; every installed token is followed by a
\* sleep of the renewal interval, and, unless the application shuts down,
\* by another token request, which is posted only once the sleep is over.
C17_KeepsRefreshing ==
    /\ [](CredentialsConfigured => renewer.kind = "task")
    /\ [](renewer.pc = "created" => (token_requests = 0 /\ access_token = None))
    /\ [][(renewer.pc = "post" /\ renewer'.pc = "sleep") =>
              renewer'.sleep_left = RenewalInterval]_vars
    /\ [][(renewer.pc = "sleep" /\ renewer'.pc = "post") =>
              renewer.sleep_left = 0]_vars
    /\ (renewer.pc = "created") ~> (renewer.pc = "post" \/ app = "shutdown")
    /\ (renewer.pc = "sleep") ~> (renewer.pc = "post" \/ app = "shutdown")

C17_Witness ==
    /\ app = "running"
    /\ renewer.pc = "post"
    /\ token_requests >= 2
    /\ access_token # None

\* C18: once the application has shut down the renewer is cancelled (or had
\* already ended): no token request is issued any more and the bearer token
\* does not change, so a refresh in flight at shutdown leaves it as it was;
\* the bearer token is at all times unset or a whole access token the auth
\* service scoped to the search service.
C18_Shutdown ==
    /\ [](app = "shutdown" => renewer.pc \in {"cancelled", "failed"})
    /\ [][(app = "shutdown" \/ app' = "shutdown") =>
              /\ ~IssuesTokenRequest
              /\ token_requests' = token_requests
              /\ access_token' = access_token]_vars
    /\ [](access_token = None \/ Val(access_token) \in ScopedAccessTokens)

C18_Witness ==
    /\ app = "shutdown"
    /\ renewer.pc = "cancelled"
    /\ renewer.cancelled_in = "post"
    /\ token_requests >= 2
    /\ access_token # None

-----------------------------------------------------------------------------
(* Properties of the error responses (checked under Spec) *)

\* C19: a search whose backend call ran into the timeout is answered with a
\* 504 whose body is the structured error {type, title, status: 504, detail,
\* trace_id}, and the error is logged at error level.
C19_UpstreamTimeout ==
    \A h \in Handlers :
        (Done(h) /\ handler[h].exc = "ReadTimeout") =>
            /\ handler[h].status = 504
            /\ handler[h].logged = "error"
            /\ handler[h].content # None
            /\ DOMAIN Val(handler[h].content) =
                  {"type", "title", "status", "detail", "trace_id"}
            /\ Val(handler[h].content).status = 504

-----------------------------------------------------------------------------
(* Properties of the /search alias (checked under SpecAlias) *)

\* C20: a request to /search is answered with a 308 redirect to the search
\* operation whose query is the request's: every name and every value,
\* repeated names included.
C20_AliasRedirect ==
    rresp # None =>
        /\ Val(rresp).status_code = 308
        /\ Val(rresp).location.path = "/"
        /\ Val(rresp).location.query = Val(rreq).query_params

-----------------------------------------------------------------------------
(* Properties of the merge (checked under SpecAssemble) *)

\* Whether the query whose response is assembled asked for facets.
FacetsRequested == Truthy(from_esg_search_query(Val(aq)).facets)

\* C21: in the assembled response numFound, start and docs are those of the
\* rows response; when facets were asked, facet_fields holds for each facet
\* of the facets response its buckets' values and counts in order; when no
\* facets were asked there is no facets response and facet_fields is empty.
C21_Merge ==
    Assembled =>
        LET rows == Val(arows).result
            fields == LegacyBody.facet_counts.facet_fields
        IN  /\ LegacyBody.response.numFound = rows.total
            /\ LegacyBody.response.start = rows.offset
            /\ Len(LegacyBody.response.docs) = Len(rows.gmeta)
            /\ \A i \in 1..Len(rows.gmeta) :
                  /\ LegacyBody.response.docs[i].id = rows.gmeta[i].subject
                  /\ LegacyBody.response.docs[i].title =
                        rows.gmeta[i].entries[1].content.title
            /\ FacetsRequested =>
                  LET results == Val(Val(afacets).facet_results)
                  IN  /\ DOMAIN fields = {results[i].name : i \in 1..Len(results)}
                      /\ \A i \in 1..Len(results) :
                            LET buckets == results[i].buckets
                                counts == fields[results[i].name]
                            IN  /\ Len(counts) = 2 * Len(buckets)
                                /\ \A b \in 1..Len(buckets) :
                                      /\ counts[2 * b - 1] = buckets[b].value
                                      /\ counts[2 * b] = buckets[b].count
            /\ ~FacetsRequested => afacets = None /\ DOMAIN fields = {}

\* A response assembled from a rows response with docs and a facets response
\* with buckets and another total.
C21_Witness ==
    /\ Assembled
    /\ FacetsRequested
    /\ Val(arows).result.gmeta # <<>>
    /\ Val(afacets).total # Val(arows).result.total
    /\ LegacyBody.response.numFound = Val(arows).result.total
    /\ LegacyBody.facet_counts.facet_fields[<<"a">>] = <<"x", 2, "y", 1>>

-----------------------------------------------------------------------------
(* Properties of the installed token and of the token requests (checked
   under SpecWatchdog) *)

\* The token response the renewal task processed last, once it has installed
\* a token from it.
Installed == renewer.token_response # None /\ renewer.error = ""

\* C22: after a token response with a token for the search service, the
\* client's bearer token is the access token of the top-level token when that
\* is for the search service, and otherwise of the first of other_tokens that
\* is.
C22_InstalledToken ==
    Installed =>
        LET token_response == Val(renewer.token_response)
            others == token_response.other_tokens
        IN  /\ token_response.resource_server = SearchServer =>
                  access_token = Some(token_response.access_token)
            /\ token_response.resource_server # SearchServer =>
                  \E i \in 1..Len(others) :
                      /\ others[i].resource_server = SearchServer
                      /\ \A j \in 1..(i - 1) : others[j].resource_server # SearchServer
                      /\ access_token = Some(others[i].access_token)

\* The second of two nested search tokens is passed over for the first.
C22_Witness ==
    /\ Installed
    /\ Val(renewer.token_response).resource_server # SearchServer
    /\ Len(Val(renewer.token_response).other_tokens) = 2
    /\ Val(renewer.token_response).other_tokens[1].access_token = <<"t1">>
    /\ Val(renewer.token_response).other_tokens[2].access_token = <<"t2">>
    /\ access_token = Some(<<"t1">>)

\* The top-level search token is installed although other_tokens holds one.
C22_TopLevelWitness ==
    /\ Installed
    /\ Val(renewer.token_response).resource_server = SearchServer
    /\ \E i \in 1..Len(Val(renewer.token_response).other_tokens) :
          Val(renewer.token_response).other_tokens[i].resource_server = SearchServer
    /\ access_token = Some(<<"main">>)

\* C23: token requests bypass the cache: the cache never holds a token
\* response, a token request in flight is on its way to the auth service and
\* not answered from the cache, and so is every token request the task
\* issues.
C23_TokenBypassesCache ==
    /\ [](token_cache = None)
    /\ [](renewer.pc = "post" => ~renewer.from_cache)
    /\ [][IssuesTokenRequest => ~renewer'.from_cache]_vars

\* A second token request is in flight after the auth service has answered
\* the first with a response that allows caching.
C23_Witness ==
    /\ renewer.pc = "post"
    /\ renewer.token_response # None
    /\ token_requests = 2
    /\ ~renewer.from_cache
    /\ token_cache = None

\* A search call goes out in this step.
IssuesSearchCall == search_auth' # search_auth

\* C24: a search call carries "Authorization: Bearer <token>" with the
\* bearer token installed when the call is made, and no Authorization header
\* when none is installed; a call never carries any other token.
C24_Authorization ==
    /\ [][IssuesSearchCall =>
             /\ access_token # None =>
                   search_auth'.header = Some(<<"Bearer", " ">> \o Val(access_token))
             /\ access_token = None => search_auth'.header = None]_vars
    /\ [](search_auth.header # None =>
             \E t \in ScopedAccessTokens :
                 search_auth.header = Some(<<"Bearer", " ">> \o t))

\* A search call has gone out with the token a refresh installed.
C24_Witness ==
    /\ search_auth.sent
    /\ access_token = Some(<<"t1">>)
    /\ search_auth.header = Some(<<"Bearer", " ", "t1">>)

\* A search call has gone out with no token installed.
C24_NoTokenWitness ==
    /\ search_auth.sent
    /\ renewer.kind = "task"
    /\ access_token = None
    /\ search_auth.header = None

-----------------------------------------------------------------------------
(* Properties of the field partition (checked under SpecMap) *)

\* The meta fields as the claim lists them: free-text query, result type,
\* paging, facets, format, version bounds and timestamp bounds.
ListedMetaFields ==
    {"query", "type", "offset", "limit", "facets", "format",
     "min_version", "max_version", "from_", "to"}

\* The positions of the match filters on a field.
MatchFiltersOn(f) == FiltersOn("match_any", f) \cup FiltersOn("match_all", f)

\* C25 as stated: the queryable fields are the recognized fields other than
\* the listed meta fields: the mapper filters on no listed meta field, and on
\* every other recognized field the caller set.
C25_Original ==
    Mapped =>
        /\ \A f \in ListedMetaFields : MatchFiltersOn(f) = {}
        /\ \A f \in (ModelFields \ ListedMetaFields) \cap Val(mq).model_fields_set :
              MatchFiltersOn(f) # {}

\* C25 amended: the queryable fields are the recognized fields other than
\* those the base model declares (free-text query, format, bbox, paging,
\* replica, distrib, facets, version bounds, timestamp bounds); the result
\* type is queryable.  The mapper filters on no field of the base model and
\* on every other recognized field the caller set.
C25_Queriable ==
    /\ _queriable_fields \cap
          {"query", "format", "bbox", "offset", "limit", "replica", "distrib",
           "facets", "min_version", "max_version", "from_", "to"} = {}
    /\ \A f \in ModelFields :
          f \in {"id", "type", "activity_id", "latest"} => f \in _queriable_fields
    /\ Mapped =>
          \A f \in ModelFields :
              MatchFiltersOn(f) # {} <=>
                  /\ f \in Val(mq).model_fields_set
                  /\ f \notin {"query", "format", "bbox", "offset", "limit",
                               "replica", "distrib", "facets", "min_version",
                               "max_version", "from_", "to"}

\* The caller set the result type and the mapper filters on it.
C25_Witness ==
    /\ Mapped
    /\ Val(mq).type = Some(<<"File">>)
    /\ "type" \in Val(mq).model_fields_set
    /\ "query" \in Val(mq).model_fields_set
    /\ MatchFiltersOn("type") # {}
    /\ MatchFiltersOn("query") = {}

-----------------------------------------------------------------------------
(* Properties of racing requests (checked under SpecRace) *)

\* The key of the call handler h sent last.
LastKey(h) == cache_key(handler[h].calls[Len(handler[h].calls)])

\* The backend's 200 reaches handler h in this step.
ReceivesRows(h) == handler[h].pc = "rows_wait" /\ handler'[h].pc = "rows_resp"

\* C26: when the backend answers a handler that missed the cache, the handler
\* goes on with that answer whether or not another handler's answer for the
\* same key was stored in between, the other handler is left as it is, and
\* the key's entry is the one stored now (the last write wins); a key the
\* backend answered no more than the TTL ago has a usable entry, and a call
\* for it is served from the cache without a backend invocation.
C26_ConcurrentMiss ==
    /\ [][\A h \in Handlers :
             ReceivesRows(h) =>
                 /\ handler'[h].rows_response =
                       Some([from_cache |-> FALSE, cache_key |-> None, status |-> 200])
                 /\ cache'[LastKey(h)] = Some([created |-> now])
                 /\ \A o \in Handlers \ {h} : handler'[o] = handler[o]]_vars
    /\ [](\A k \in AllKeys :
             (stored_at[k] # None /\ now - Val(stored_at[k]) <= TTL) =>
                 /\ cache[k] # None
                 /\ ~IsExpired(Val(cache[k]), now))
    /\ [][\A h \in Handlers :
             IssuesCall(h) =>
                 LET key == cache_key(handler'[h].calls[Len(handler'[h].calls)])
                 IN  (stored_at[key] # None /\ now - Val(stored_at[key]) <= TTL) =>
                         /\ handler'[h].pc = "rows_resp"
                         /\ Val(handler'[h].rows_response).from_cache
                         /\ backend_calls' = backend_calls]_vars

\* Two requests for the same key have both been answered by the backend
\* within the TTL of each other: the second was sent before the first's
\* answer was stored.  Both have completed and the key has an entry.
C26_Witness ==
    /\ nreq = 2
    /\ backend_calls = 2
    /\ now <= TTL
    /\ \A h \in Handlers :
          /\ Done(h)
          /\ handler[h].status = 200
          /\ RowsFromBackend(h)
    /\ LastKey("h1") = LastKey("h2")
    /\ cache[LastKey("h1")] # None

\* After such a race a third request for the key is served from the cache.
C26_LaterWitness ==
    /\ nreq = 3
    /\ backend_calls = 2
    /\ now = 0
    /\ RowsFromCache("h1")
    /\ RowsFromBackend("h2")
    /\ handler["h2"].status = 200

-----------------------------------------------------------------------------
(* Properties of failed backend calls (checked under Spec) *)

\* The request of handler h has ended with a failure of a backend call.
BackendFailed(h) ==
    Done(h) /\ handler[h].exc \in {"ReadTimeout", "HTTPStatusError"}

\* A backend call of handler h fails in this step.
CallFails(h) ==
    /\ handler[h].pc \in {"rows_wait", "facets_wait"}
    /\ handler'[h].pc = "done"

\* After a failed backend call the request sends no further call: the failure
\* ends the request with no call sent and no backend invocation in that step,
\* a failed rows call leaves the rows call as the request's only call, a
\* failed facets call leaves two calls, and the handler does nothing more
\* until it takes a new request.
NoCallAfterFailure ==
    /\ [][\A h \in Handlers :
             /\ CallFails(h) =>
                   /\ BackendFailed(h)'
                   /\ handler'[h].calls = handler[h].calls
                   /\ backend_calls' = backend_calls
             /\ (BackendFailed(h) /\ handler'[h] # handler[h]) =>
                   /\ nreq' = nreq + 1
                   /\ Len(handler'[h].calls) = 1]_vars
    /\ [](\A h \in Handlers :
             BackendFailed(h) =>
                 /\ handler[h].rows_response = None => Len(handler[h].calls) = 1
                 /\ handler[h].rows_response # None =>
                       /\ Len(handler[h].calls) = 2
                       /\ handler[h].facets_response = None
                 /\ \A i, j \in 1..Len(handler[h].calls) :
                       i # j => handler[h].calls[i] # handler[h].calls[j])

\* The request ends with the structured error body and not with a legacy
\* response.
EndsWithStructuredError ==
    [](\A h \in Handlers :
          BackendFailed(h) =>
              /\ handler[h].status # 200
              /\ handler[h].content # None
              /\ DOMAIN Val(handler[h].content) =
                    {"type", "title", "status", "detail", "trace_id"})

\* C27: a failed backend call (timeout or non-success status) is followed by
\* no further backend call of the request, neither a retry nor a facets call,
\* and the request ends with the structured error.
C27_NoRetry == NoCallAfterFailure /\ EndsWithStructuredError

-----------------------------------------------------------------------------
(* Properties of the mapper and the assembler together (checked under
   SpecAssemble) *)

\* The field names of the fragments of the fq echo.
FqFieldNames == {FqFragments[i][1] : i \in 1..Len(FqFragments)}

\* The field names of the match filters the mapper builds for the query.
MatchFilterFieldNames ==
    LET globus_query == from_esg_search_query(Val(aq))
        filters == IF globus_query.filters = None THEN <<>>
                   ELSE Val(globus_query.filters)
    IN  {filters[i].field_name :
            i \in {j \in 1..Len(filters) : filters[j].type = "match_any"}}

\* C28: the field names echoed in responseHeader.params.fq are the field
\* names the mapper sent a match filter for, also for a field that only holds
\* its default value.
C28_SameFields == Assembled => FqFieldNames = MatchFilterFieldNames

\* A request that names an id and no result type: both the echo and the
\* match filters are on id and on the defaulted type.
C28_Witness ==
    /\ Assembled
    /\ Val(aq).type = Some(DefaultType)
    /\ Val(aq).id = Some(<<"a">>)
    /\ Val(aq).activity_id = None
    /\ Val(aq).latest = None
    /\ FqFieldNames = {"id", "type"}
    /\ MatchFilterFieldNames = {"id", "type"}

-----------------------------------------------------------------------------
(* Properties of the validation key (checked under Spec) *)

\* The cache key the conditional headers of the request of handler h are
\* validated against: that of its rows call.
ValidationKey(h) == cache_key(handler[h].calls[1])

\* C29: two requests whose mapped structured queries differ are not validated
\* against the same cache key, and an if-none-match value that is the key of
\* one of them does not end the other with NotModified.
C29_KeyIdentifiesResponse ==
    \A h, o \in Handlers :
        (Started(h) /\ Started(o) /\ MappedQuery(h) # MappedQuery(o)) =>
            /\ ValidationKey(h) # ValidationKey(o)
            /\ ~(/\ Done(h)
                 /\ handler[h].status = 304
                 /\ handler[h].headers.if_none_match = Some(ValidationKey(o)))

-----------------------------------------------------------------------------
(* Properties of a failed refresh cycle (checked under SpecWatchdog) *)

\* The exceptions a refresh cycle can end with: a failed token request, a
\* body that is not JSON, a document without the keys of a token document,
\* and no token for the search service.
RefreshFailures == {"TransportError", "JSONDecodeError", "KeyError", "RuntimeError"}

\* The renewal task has ended with an exception.
WatchdogFailed == renewer.pc = "failed"

\* C30: a failure inside a refresh cycle ends the renewal task, leaving the
\* bearer token as it was; the task stays ended for good: no token request is
\* issued any more and the bearer token does not change; while the
\* application runs, search calls can still be made and carry that token.
C30_FailureEndsWatchdog ==
    /\ [](WatchdogFailed => renewer.error \in RefreshFailures)
    /\ [][(renewer.pc = "post" /\ renewer'.error # "") =>
              /\ WatchdogFailed'
              /\ access_token' = access_token]_vars
    /\ [][WatchdogFailed =>
              /\ renewer' = renewer
              /\ ~IssuesTokenRequest
              /\ token_requests' = token_requests
              /\ access_token' = access_token
              /\ IssuesSearchCall =>
                    search_auth'.header =
                        IF access_token = None THEN None
                        ELSE Some(<<"Bearer", " ">> \o Val(access_token))]_vars
    /\ [](WatchdogFailed => [](WatchdogFailed /\ renewer.pc # "post"))
    /\ []((WatchdogFailed /\ app = "running") => ENABLED SearchCall)

\* The second refresh ended on a document that is no token document; a search
\* call made after it carries the token of the first refresh.
C30_Witness ==
    /\ app = "running"
    /\ WatchdogFailed
    /\ renewer.error = "KeyError"
    /\ token_requests = 2
    /\ access_token = Some(<<"t1">>)
    /\ search_auth = [sent |-> TRUE, header |-> Some(<<"Bearer", " ", "t1">>)]

====
